---------------------------- MODULE Spec2Model ----------------------------
(***************************************************************************)
(* Model of yt-comprehend: the tier-escalation orchestrator               *)
(* VideoComprehend.analyze (src/src/comprehend.py) together with the      *)
(* extract operations of the audio and visual backends it drives.         *)
(*                                                                         *)
(* One analyze call is unfolded into the steps at which it is observable  *)
(* from outside: calls of the progress callback, calls of a backend and   *)
(* the return or raise that ends the call.  `trace` is the history of     *)
(* those observations inside the current call.  Spec is that machine.     *)
(*                                                                         *)
(* RenderSpec applies the renderings of a returned result (main of        *)
(* src/src/cli.py, ComprehendResult.to_markdown and its timestamp         *)
(* grouping) to the results analyze can return.                           *)
(***************************************************************************)
EXTENDS Integers, Sequences, FiniteSets, TLC

(***************************************************************************)
(* Bounds of the model                                                     *)
(***************************************************************************)
\* how far outside 1..3 a requested tier may lie
MaxBadTier == 1
\* number of frames a visual extraction may return
MaxFrames == 2

(***************************************************************************)
(* Optional values: None is the empty sequence, a value x is <<x>>.        *)
(***************************************************************************)
None == <<>>
Some(x) == <<x>>

(***************************************************************************)
(* Progress messages.  A message is the sequence of the fixed phrases it   *)
(* contains; the interpolated exception text is left out.                  *)
(***************************************************************************)
MsgTryingCaptions == <<"Trying caption extraction">>
\* MsgEscalate2 that no longer names the escalation
MsgEscalate2Reworded == <<"Captions unavailable", "Trying audio transcription">>
MsgEscalate2 == <<"Captions unavailable", "Escalating to Tier 2">>
MsgStartingAudio == <<"Starting audio transcription">>
MsgEscalate3 == <<"Audio transcription failed", "Escalating to Tier 3">>
MsgStartingVisual == <<"Starting full visual analysis">>
MsgDownloadingAudio == <<"Downloading audio">>
MsgTranscribing == <<"Transcribing with Whisper">>
MsgDownloadingVideo == <<"Downloading video">>
MsgDetectingScenes == <<"Detecting scenes">>
MsgExtractingFrames == <<"Extracting frames">>
MsgRemovingDuplicates == <<"Removing duplicate frames">>
MsgRunningOCR == <<"Running OCR on frames">>

\* `pattern in message` of Python, on the phrases of a message
Contains(message, pattern) == \E i \in 1..Len(message) : message[i] = pattern

(***************************************************************************)
(* Values the backends can return                                          *)
(***************************************************************************)
\* texts of segments; Strip is str.strip() on them
SegTexts == {"hello", " world "}
Strip(t) == IF t = " world " THEN "world" ELSE t

\* CaptionSegment(text, start, duration)
CaptionSegs1 == << [text |-> "hello", start |-> 0, duration |-> 5] >>
CaptionSegs2 == << [text |-> "hello", start |-> 0, duration |-> 5],
                   [text |-> " world ", start |-> 35, duration |-> 5] >>

\* TranscriptSegment(text, start, end)
TranscriptSegs1 == << [text |-> " world ", start |-> 0, end |-> 4] >>
TranscriptSegs2 == << [text |-> "hello", start |-> 2, end |-> 4],
                      [text |-> " world ", start |-> 61, end |-> 70] >>

\* CaptionResult.text: " ".join(seg.text for seg in segments), kept as the
\* sequence of the joined pieces
CaptionText(segments) == [i \in 1..Len(segments) |-> segments[i].text]

\* TranscriptResult.text: " ".join(seg.text.strip() for seg in segments)
TranscriptText(segments) == [i \in 1..Len(segments) |-> Strip(segments[i].text)]

CaptionResults ==
    { [segments |-> s, language |-> l, text |-> CaptionText(s)] :
        s \in {CaptionSegs1, CaptionSegs2}, l \in {"en"} }

TranscriptResults ==
    { [segments |-> TranscriptSegs1, language |-> "en", duration |-> 4,
       text |-> TranscriptText(TranscriptSegs1)],
      [segments |-> TranscriptSegs2, language |-> "de", duration |-> 70,
       text |-> TranscriptText(TranscriptSegs2)] }

\* OCR texts of frames; a blank one has ocr_text.strip() == ""
OcrTexts == {"", "slide"}
IsBlank(t) == t = ""

RECURSIVE SeqsUpTo(_, _)
SeqsUpTo(S, n) ==
    IF n = 0 THEN { <<>> }
    ELSE LET shorter == SeqsUpTo(S, n - 1)
         IN  shorter \cup { Append(q, x) : q \in shorter, x \in S }

\* FrameContent lists (the OCR text of each frame)
FrameLists == SeqsUpTo(OcrTexts, MaxFrames)

\* VisualResult.text: the entries of the frames whose OCR text is not blank,
\* joined by blank lines; kept as the sequence of the joined entries
RECURSIVE VisualText(_)
VisualText(frames) ==
    IF frames = <<>> THEN <<>>
    ELSE IF IsBlank(Head(frames)) THEN VisualText(Tail(frames))
         ELSE <<Head(frames)>> \o VisualText(Tail(frames))

VisualResult(frames) == [frames |-> frames, text |-> VisualText(frames)]

(***************************************************************************)
(* Errors                                                                  *)
(***************************************************************************)
CaptionExtractionError == "CaptionExtractionError"
AudioExtractionError == "AudioExtractionError"
VisualExtractionError == "VisualExtractionError"
\* ValueError of extract_video_id
InvalidReference == "ValueError: Could not extract video ID"
\* ValueError at the end of analyze
InvalidTier == "ValueError: Invalid tier"
\* an exception raised by the progress callback itself
SinkError == "SinkError"
\* an exception of a library underneath a backend that the backend does not wrap
BackendError == "BackendError"
UnboundLocalError == "UnboundLocalError"
\* what Path.unlink raises when the file cannot be removed
UnlinkError == "OSError"

(***************************************************************************)
(* State                                                                   *)
(***************************************************************************)
VARIABLES
    config,             \* VideoComprehend.config (the keys that are read)
    _caption_extractor, \* TRUE once the caption extractor is constructed
    _audio_extractor,   \* TRUE once the audio extractor is constructed
    _visual_extractor,  \* TRUE once the visual extractor is constructed
    deps_available,     \* the optional dependencies of tier 3 are installed
    args,               \* arguments of the analyze call in progress
    pc,                 \* position inside analyze
    tier,               \* local variable tier of analyze
    auto_escalate,      \* local variable auto_escalate of analyze
    audio_path,         \* local of AudioExtractor.extract
    audio_file,         \* TRUE while the downloaded audio file exists
    audio_result,       \* local of analyze in the tier 3 block
    video_path,         \* local of VisualExtractor.extract
    video_file,         \* TRUE while the downloaded video file exists
    frame_paths,        \* local of VisualExtractor.extract, None = unbound
    frame_files,        \* the frame files that exist
    trace,              \* observable events of the call in progress
    attempts,           \* tiers whose block this call entered, in order
    outcome,            \* how the call ended
    render_call,        \* what main of cli.py renders the result with
    output_text,        \* output_text of main, None before the rendering
    _model,             \* AudioExtractor._model: TRUE once the model is loaded
    initial_prompt,     \* AudioExtractor.initial_prompt of the audio extractor
    constructions,      \* how many times each lazily built object was built
    transcriptions,     \* initial_prompt of each model.transcribe of the call
    download,           \* one call of AudioExtractor.download_audio
    caption,            \* one call of CaptionExtractor.extract
    calls,              \* analyze calls that run concurrently on the instance
    frames_call         \* one call of deduplicate_frames or text_with_context

vars == << config, _caption_extractor, _audio_extractor, _visual_extractor,
           deps_available, args, pc, tier, auto_escalate,
           audio_path, audio_file, audio_result, video_path, video_file,
           frame_paths, frame_files, trace, attempts, outcome,
           render_call, output_text, _model, initial_prompt, constructions,
           transcriptions, download, caption, calls, frames_call >>

\* the VideoComprehend instance and its environment
instance == << config, _caption_extractor, _audio_extractor,
               _visual_extractor, deps_available >>
\* the state of AudioExtractor.extract
audio_state == << audio_path, audio_file >>
\* the state of VisualExtractor.extract
visual_state == << video_path, video_file, frame_paths, frame_files >>
\* the state of the rendering in main
render_state == << render_call, output_text >>
\* the fields of the audio extractor and the history of the lazy properties
lazy_state == << _model, initial_prompt, constructions, transcriptions >>
\* what a sequential analyze call does not touch: the rendering, the call of
\* download_audio that is looked at on its own, the concurrent calls, the
\* functions on frames that are looked at on their own
elsewhere == << render_state, download, caption, calls, frames_call >>

\* requested tiers: None or an integer, also outside 1..3
TierArgs == {None} \cup { Some(t) : t \in (0 - MaxBadTier)..(3 + MaxBadTier) }
\* requested auto_escalate: None or a boolean
EscalateArgs == {None, Some(TRUE), Some(FALSE)}

NoOutcome == [status |-> "none", error |-> "", result |-> None]

\* nothing is built by __init__ (comprehend.py lines 125-128, audio.py line 144)
NoConstructions == [caption |-> 0, audio |-> 0, visual |-> 0, model |-> 0]
\* download_audio is not being called
NoDownload == [pc |-> "idle"]
\* CaptionExtractor.extract is not being called
NoCaption == [pc |-> "idle"]
\* no concurrent call
NoCalls == <<>>
\* neither deduplicate_frames nor text_with_context is being called
NoFramesCall == [op |-> "idle"]

(***************************************************************************)
(* Events of the trace                                                     *)
(***************************************************************************)
\* the tier block of analyze that is being executed
Attempting == IF attempts = <<>> THEN 0 ELSE attempts[Len(attempts)]

\* the progress callback was called with message
Progress(message) ==
    [kind |-> "progress", block |-> Attempting, msg |-> message, backend |-> "",
     error |-> "", value |-> None]
\* extract of backend b was called
Invoke(b) ==
    [kind |-> "invoke", block |-> Attempting, msg |-> <<>>, backend |-> b,
     error |-> "", value |-> None]
\* backend b returned r
Returned(b, r) ==
    [kind |-> "return", block |-> Attempting, msg |-> <<>>, backend |-> b,
     error |-> "", value |-> Some(r)]
\* backend b raised e
Raised(b, e) ==
    [kind |-> "raise", block |-> Attempting, msg |-> <<>>, backend |-> b,
     error |-> e, value |-> None]

\* audio_path.unlink() was called in the finally clause of the extract of
\* backend b; error is the exception it raised, "" when it worked
Unlinked(b, e) ==
    [kind |-> "unlink", block |-> Attempting, msg |-> <<>>, backend |-> b,
     error |-> e, value |-> None]

\* `if progress_callback: progress_callback(message)`
progress_callback(message) ==
    IF args.progress_callback THEN <<Progress(message)>> ELSE <<>>

(***************************************************************************)
(* Results                                                                 *)
(***************************************************************************)
\* VideoMetadata(...) with its defaults duration=None, has_visual_content=False
VideoMetadata(tier_used, language, duration, has_visual_content) ==
    [tier_used |-> tier_used, language |-> language, duration |-> duration,
     has_visual_content |-> has_visual_content]

\* ComprehendResult(...) with its defaults visual_text="", visual_frames=[]
ComprehendResult(metadata, text, segments, visual_text, visual_frames) ==
    [metadata |-> metadata, transcript_text |-> text,
     transcript_segments |-> segments,
     visual_text |-> visual_text, visual_frames |-> visual_frames]

\* the result built in the tier 1 block
Tier1Result(result) ==
    ComprehendResult(VideoMetadata(1, result.language, None, FALSE),
                     result.text, result.segments, <<>>, <<>>)

\* Tier2Result built like the tier 1 result, without duration
Tier2ResultWithoutDuration(result) ==
    ComprehendResult(VideoMetadata(2, result.language, None, FALSE),
                     result.text, result.segments, <<>>, <<>>)

\* the result built in the tier 2 block
Tier2Result(result) ==
    ComprehendResult(VideoMetadata(2, result.language, Some(result.duration), FALSE),
                     result.text, result.segments, <<>>, <<>>)

\* Tier3Result that reports the tier of the audio block it was copied from
Tier3ResultAsTier2(audio, visual) ==
    ComprehendResult(VideoMetadata(2, audio.language, Some(audio.duration),
                                   visual.frames # <<>>),
                     audio.text, audio.segments, visual.text, visual.frames)

\* Tier3Result with has_visual_content=bool(visual_result.text)
Tier3ResultContentFromText(audio, visual) ==
    ComprehendResult(VideoMetadata(3, audio.language, Some(audio.duration),
                                   visual.text # <<>>),
                     audio.text, audio.segments, visual.text, visual.frames)

\* Tier3Result that takes the transcript text from the visual result
Tier3ResultVisualTranscript(audio, visual) ==
    ComprehendResult(VideoMetadata(3, audio.language, Some(audio.duration),
                                   visual.frames # <<>>),
                     visual.text, audio.segments, visual.text, visual.frames)

\* the result built in the tier 3 block; bool(frames) is frames # []
Tier3Result(audio, visual) ==
    ComprehendResult(VideoMetadata(3, audio.language, Some(audio.duration),
                                   visual.frames # <<>>),
                     audio.text, audio.segments, visual.text, visual.frames)

\* `tier = tier or self.config.get("default_tier", 1)`: None and 0 are falsy
StartTier(t) == IF t = None \/ t = Some(0) THEN config.default_tier ELSE t[1]

\* `auto_escalate if auto_escalate is not None else config auto_escalate`
StartEscalate(ae) == IF ae # None THEN ae[1] ELSE config.auto_escalate

\* the chain of `if tier <= 1`, `if tier <= 2`, `if tier == 3`, final raise
Block3(t) == IF t = 3 THEN "tier3" ELSE "invalid"
Block2(t) == IF t <= 2 THEN "tier2" ELSE Block3(t)
Block1(t) == IF t <= 1 THEN "tier1" ELSE Block2(t)

\* the tier block that starts at position p, if one does
Entered(p) ==
    IF p = "tier1" THEN <<1>>
    ELSE IF p = "tier2" THEN <<2>>
    ELSE IF p = "tier3" THEN <<3>>
    ELSE <<>>

\* analyze ends by raising e / by returning r
Raise(e) ==
    /\ pc' = "done"
    /\ outcome' = [status |-> "failed", error |-> e, result |-> None]
Return(r) ==
    /\ pc' = "done"
    /\ outcome' = [status |-> "success", error |-> "", result |-> Some(r)]

(***************************************************************************)
(* The lazy properties: caption_extractor, audio_extractor and             *)
(* visual_extractor of VideoComprehend, model of AudioExtractor            *)
(***************************************************************************)
\* a lazy property that builds its object at every read
LazyBuildAlways(cached) == TRUE

\* `if self._x is None:`: the property builds the object when none is cached
LazyBuild(cached) == ~cached

\* the count of constructions after the lazy property `name` was read
Built(name, cached) ==
    IF LazyBuild(cached)
    THEN [constructions EXCEPT ![name] = @ + 1]
    ELSE constructions

\* AudioExtractor(...) of the audio_extractor property: the call passes
\* model_name, device, compute_type, beam_size and language, so that
\* initial_prompt keeps the default of __init__, None
AudioExtractorPrompt(whisper_config) == None

(***************************************************************************)
(* Init: a freshly constructed VideoComprehend, no call made yet           *)
(***************************************************************************)
\* everything but the configuration and the installed dependencies
Fresh ==
    /\ _caption_extractor = FALSE
    /\ _audio_extractor = FALSE
    /\ _visual_extractor = FALSE
    /\ args = [url_ok |-> TRUE, tier |-> None, auto_escalate |-> None,
               progress_callback |-> FALSE]
    /\ pc = "idle"
    /\ tier = 1
    /\ auto_escalate = TRUE
    /\ audio_path = None
    /\ audio_file = FALSE
    /\ audio_result = None
    /\ video_path = None
    /\ video_file = FALSE
    /\ frame_paths = None
    /\ frame_files = {}
    /\ trace = <<>>
    /\ attempts = <<>>
    /\ outcome = NoOutcome
    /\ render_call = None
    /\ output_text = None
    /\ _model = FALSE
    /\ initial_prompt = None
    /\ constructions = NoConstructions
    /\ transcriptions = <<>>
    /\ download = NoDownload
    /\ caption = NoCaption
    /\ calls = NoCalls
    /\ frames_call = NoFramesCall

Init ==
    /\ config \in [default_tier : 1..3, auto_escalate : BOOLEAN,
                   keep_audio : BOOLEAN, keep_frames : BOOLEAN,
                   deduplicate : BOOLEAN]
    /\ deps_available \in BOOLEAN
    /\ Fresh

(***************************************************************************)
(* CaptionExtractor.extract_video_id, src/src/extractors/captions.py       *)
(* lines 102-115.  A reference is described by the marker it contains and  *)
(* by the number of id characters [a-zA-Z0-9_-] that follow the marker     *)
(* (that make up the whole reference when there is no marker).             *)
(***************************************************************************)
\* {11} of both patterns
IdLength == 11
\* the alternatives of the first pattern
YouTubeMarkers == {"youtube.com/watch?v=", "youtu.be/", "youtube.com/embed/"}
Urls == [marker : YouTubeMarkers \cup {"", "vimeo.com/"},
         id_chars : {0} \cup (IdLength - 1)..(IdLength + 1)]

\* the video id (its length) or None where the code raises ValueError: the
\* first pattern is searched anywhere and takes the first 11 id characters
\* after a marker, the second one is anchored at both ends
extract_video_id(url) ==
    IF url.marker \in YouTubeMarkers /\ url.id_chars >= IdLength
    THEN Some(IdLength)
    ELSE IF url.marker = "" /\ url.id_chars = IdLength
         THEN Some(IdLength)
         ELSE None

(***************************************************************************)
(* analyze, lines 234-238: defaults and extract_video_id                   *)
(***************************************************************************)
\* analyze_enter that leaves the parsing of the reference to the backends
analyze_enter_without_parsing ==
    /\ pc = "idle"
    /\ \E url \in Urls, t \in TierArgs, ae \in EscalateArgs, cb \in BOOLEAN :
        /\ args' = [url_ok |-> extract_video_id(url) # None, tier |-> t,
                    auto_escalate |-> ae, progress_callback |-> cb]
        /\ tier' = StartTier(t)
        /\ auto_escalate' = StartEscalate(ae)
        /\ pc' = Block1(StartTier(t))
        /\ attempts' = Entered(Block1(StartTier(t)))
        /\ outcome' = NoOutcome
    /\ UNCHANGED << elsewhere, lazy_state, instance, audio_state, audio_result, visual_state, trace >>

analyze_enter ==
    /\ pc = "idle"
    /\ \E url \in Urls, t \in TierArgs, ae \in EscalateArgs, cb \in BOOLEAN :
        /\ args' = [url_ok |-> extract_video_id(url) # None, tier |-> t,
                    auto_escalate |-> ae, progress_callback |-> cb]
        /\ tier' = StartTier(t)
        /\ auto_escalate' = StartEscalate(ae)
        /\ IF extract_video_id(url) # None
           THEN /\ pc' = Block1(StartTier(t))
                /\ attempts' = Entered(Block1(StartTier(t)))
                /\ outcome' = NoOutcome
           ELSE /\ Raise(InvalidReference)
                /\ attempts' = <<>>
    /\ UNCHANGED << elsewhere, lazy_state, instance, audio_state, audio_result, visual_state, trace >>

(***************************************************************************)
(* Tier 1 block, lines 241-264                                             *)
(***************************************************************************)
\* lines 243-244
tier1_progress ==
    /\ pc = "tier1"
    /\ UNCHANGED attempts
    /\ trace' = trace \o progress_callback(MsgTryingCaptions)
    /\ \/ pc' = "tier1_extract" /\ UNCHANGED outcome
       \/ args.progress_callback /\ Raise(SinkError)
    /\ UNCHANGED << elsewhere, lazy_state, instance, args, tier, auto_escalate,
                    audio_state, audio_result, visual_state >>

\* Tier1Except with a handler that catches every exception
Tier1ExceptCatchesAll(e) ==
    IF ~auto_escalate \/ tier > 1
    THEN Raise(e)
    ELSE pc' = "tier1_escalate" /\ UNCHANGED outcome

\* the except clause of lines 259-261 for an error e of the tier 1 try body
Tier1Except(e) ==
    IF e = CaptionExtractionError
    THEN IF ~auto_escalate \/ tier > 1
         THEN Raise(e)
         ELSE pc' = "tier1_escalate" /\ UNCHANGED outcome
    ELSE Raise(e)

\* lines 246-261: self.caption_extractor.extract(url) and what follows; it
\* returns a CaptionResult, raises CaptionExtractionError, or lets through
\* what `except Exception` of extract does not wrap (a BaseException such as
\* KeyboardInterrupt; also what the property raises when it builds the
\* extractor)
tier1_extract ==
    /\ pc = "tier1_extract"
    /\ _caption_extractor' = TRUE
    /\ constructions' = Built("caption", _caption_extractor)
    /\ \/ \E result \in CaptionResults :
            /\ trace' = trace \o <<Invoke("caption"), Returned("caption", result)>>
            /\ Return(Tier1Result(result))
       \/ \E e \in {CaptionExtractionError, BackendError} :
            /\ trace' = trace \o <<Invoke("caption"), Raised("caption", e)>>
            /\ Tier1Except(e)
    /\ UNCHANGED << elsewhere, _model, initial_prompt, transcriptions,
                    config, _audio_extractor, _visual_extractor, deps_available,
                    args, tier, auto_escalate, audio_state,
                    audio_result, visual_state, attempts >>

\* tier1_escalate that continues at tier 3
tier1_escalate_skips ==
    /\ pc = "tier1_escalate"
    /\ trace' = trace \o progress_callback(MsgEscalate2)
    /\ \/ /\ tier' = 3
          /\ pc' = Block2(3)
          /\ attempts' = attempts \o Entered(Block2(3))
          /\ UNCHANGED outcome
       \/ /\ args.progress_callback
          /\ Raise(SinkError)
          /\ UNCHANGED << tier, attempts >>
    /\ UNCHANGED << elsewhere, lazy_state, instance, args, auto_escalate, audio_state,
                    audio_result, visual_state >>

\* lines 262-264
tier1_escalate ==
    /\ pc = "tier1_escalate"
    /\ trace' = trace \o progress_callback(MsgEscalate2)
    /\ \/ /\ tier' = 2
          /\ pc' = Block2(2)
          /\ attempts' = attempts \o Entered(Block2(2))
          /\ UNCHANGED outcome
       \/ /\ args.progress_callback
          /\ Raise(SinkError)
          /\ UNCHANGED << tier, attempts >>
    /\ UNCHANGED << elsewhere, lazy_state, instance, args, auto_escalate, audio_state,
                    audio_result, visual_state >>

(***************************************************************************)
(* AudioExtractor.extract, src/src/extractors/audio.py lines 273-311,      *)
(* called from the tier 2 block and from the tier 3 block                  *)
(***************************************************************************)
\* AudioCleanup that removes the file whatever keep_audio says
AudioCleanupAlways(path, unlink_ok) ==
    audio_file' = IF path # None /\ audio_file
                  THEN ~unlink_ok
                  ELSE audio_file

\* the finally clause, lines 305-311; unlink_ok: audio_path.unlink() worked
AudioCleanup(path, unlink_ok) ==
    audio_file' = IF path # None /\ audio_file /\ ~config.keep_audio
                  THEN ~unlink_ok
                  ELSE audio_file

\* the unlink call of the finally clause, line 309, when line 307 lets it
\* happen; its exception is swallowed by lines 310-311
AudioUnlink(path, unlink_ok) ==
    IF path # None /\ audio_file /\ ~config.keep_audio
    THEN <<Unlinked("audio", IF unlink_ok THEN "" ELSE UnlinkError)>>
    ELSE <<>>

\* AudioRaised with a handler that does not test auto_escalate
AudioRaisedAlwaysEscalates(e) ==
    IF Attempting = 2 /\ e = AudioExtractionError
    THEN IF tier > 2
         THEN Raise(e)
         ELSE pc' = "tier2_escalate" /\ UNCHANGED outcome
    ELSE Raise(e)

\* AudioRaised that calls extract again when it fails in the tier 3 block
AudioRaisedRetries(e) ==
    IF Attempting = 2 /\ e = AudioExtractionError
    THEN IF ~auto_escalate \/ tier > 2
         THEN Raise(e)
         ELSE pc' = "tier2_escalate" /\ UNCHANGED outcome
    ELSE IF Attempting = 3 /\ e = AudioExtractionError
         THEN pc' = "audio_enter" /\ UNCHANGED outcome
         ELSE Raise(e)

\* extract raised e: the except clause of lines 290-292 in the tier 2 block,
\* no handler in the tier 3 block
AudioRaised(e) ==
    IF Attempting = 2 /\ e = AudioExtractionError
    THEN IF ~auto_escalate \/ tier > 2
         THEN Raise(e)
         ELSE pc' = "tier2_escalate" /\ UNCHANGED outcome
    ELSE Raise(e)

\* extract returned result: lines 278-288 in the tier 2 block, lines 303-307
\* in the tier 3 block
AudioReturned(result) ==
    IF Attempting = 2
    THEN Return(Tier2Result(result)) /\ UNCHANGED audio_result
    ELSE pc' = "visual_enter" /\ audio_result' = Some(result) /\ UNCHANGED outcome

\* the audio_extractor property and lines 290-294 of extract
audio_extract_enter ==
    /\ pc = "audio_enter"
    /\ _audio_extractor' = TRUE
    /\ constructions' = Built("audio", _audio_extractor)
    /\ initial_prompt' = IF LazyBuild(_audio_extractor)
                         THEN AudioExtractorPrompt(config)
                         ELSE initial_prompt
    /\ _model' = IF LazyBuild(_audio_extractor) THEN FALSE ELSE _model
    /\ audio_path' = None
    /\ \/ /\ trace' = trace \o <<Invoke("audio")>> \o progress_callback(MsgDownloadingAudio)
          /\ pc' = "audio_download"
          /\ UNCHANGED << outcome, audio_file >>
       \/ /\ args.progress_callback
          /\ trace' = trace \o <<Invoke("audio"), Progress(MsgDownloadingAudio),
                                 Raised("audio", SinkError)>>
          /\ AudioCleanup(None, TRUE)
          /\ AudioRaised(SinkError)
    /\ UNCHANGED << elsewhere, transcriptions,
                    config, _caption_extractor, _visual_extractor, deps_available,
                    args, tier, auto_escalate, audio_result,
                    visual_state, attempts >>

\* line 296: download_audio returns a path of an existing file, raises
\* AudioExtractionError (lines 211-223), or lets through what is raised
\* outside its handlers (mkdir of line 180, the retry of line 218)
audio_download ==
    /\ pc = "audio_download"
    /\ \/ /\ audio_path' = Some("audio.m4a")
          /\ audio_file' = TRUE
          /\ pc' = "audio_transcribe_progress"
          /\ UNCHANGED << trace, outcome >>
       \/ \E e \in {AudioExtractionError, BackendError} :
             /\ trace' = Append(trace, Raised("audio", e))
             /\ AudioCleanup(audio_path, TRUE)
             /\ AudioRaised(e)
             /\ UNCHANGED audio_path
    /\ UNCHANGED << elsewhere, lazy_state, instance, args, tier, auto_escalate,
                    audio_result, visual_state, attempts >>

\* lines 298-299
audio_transcribe_progress ==
    /\ pc = "audio_transcribe_progress"
    /\ \/ /\ trace' = trace \o progress_callback(MsgTranscribing)
          /\ pc' = "audio_transcribe"
          /\ UNCHANGED << outcome, audio_file >>
       \/ /\ args.progress_callback
          /\ \E unlink_ok \in BOOLEAN :
                /\ AudioCleanup(audio_path, unlink_ok)
                /\ trace' = trace \o <<Progress(MsgTranscribing)>>
                                  \o AudioUnlink(audio_path, unlink_ok)
                                  \o <<Raised("audio", SinkError)>>
          /\ AudioRaised(SinkError)
    /\ UNCHANGED << elsewhere, lazy_state, instance, args, tier, auto_escalate,
                    audio_path, audio_result, visual_state, attempts >>

\* self.model.transcribe(..., initial_prompt=self.initial_prompt, ...), lines
\* 240-247: the model property has returned the model, loaded now or before
ModelTranscribes ==
    /\ _model' = TRUE
    /\ constructions' = Built("model", _model)
    /\ transcriptions' = Append(transcriptions, initial_prompt)

\* lines 301-311: transcribe returns a TranscriptResult, or the model raises
\* an exception that transcribe does not wrap, when it transcribes or when
\* the model property loads it (lines 159-163); then the finally clause
audio_transcribe ==
    /\ pc = "audio_transcribe"
    /\ \E unlink_ok \in BOOLEAN :
          /\ AudioCleanup(audio_path, unlink_ok)
          /\ \/ \E result \in TranscriptResults :
                  /\ ModelTranscribes
                  /\ trace' = trace \o AudioUnlink(audio_path, unlink_ok)
                                    \o <<Returned("audio", result)>>
                  /\ AudioReturned(result)
             \/ /\ \/ ModelTranscribes
                   \/ /\ LazyBuild(_model)
                      /\ UNCHANGED << _model, constructions, transcriptions >>
                /\ trace' = trace \o AudioUnlink(audio_path, unlink_ok)
                                  \o <<Raised("audio", BackendError)>>
                /\ AudioRaised(BackendError)
                /\ UNCHANGED audio_result
    /\ UNCHANGED << elsewhere, initial_prompt, instance, args, tier, auto_escalate,
                    audio_path, visual_state, attempts >>

(***************************************************************************)
(* Tier 2 block, lines 267-295                                             *)
(***************************************************************************)
\* lines 269-270
tier2_progress ==
    /\ pc = "tier2"
    /\ UNCHANGED attempts
    /\ trace' = trace \o progress_callback(MsgStartingAudio)
    /\ \/ pc' = "audio_enter" /\ UNCHANGED outcome
       \/ args.progress_callback /\ Raise(SinkError)
    /\ UNCHANGED << elsewhere, lazy_state, instance, args, tier, auto_escalate, audio_state,
                    audio_result, visual_state >>

\* lines 293-295
tier2_escalate ==
    /\ pc = "tier2_escalate"
    /\ trace' = trace \o progress_callback(MsgEscalate3)
    /\ \/ /\ tier' = 3
          /\ pc' = Block3(3)
          /\ attempts' = attempts \o Entered(Block3(3))
          /\ UNCHANGED outcome
       \/ /\ args.progress_callback
          /\ Raise(SinkError)
          /\ UNCHANGED << tier, attempts >>
    /\ UNCHANGED << elsewhere, lazy_state, instance, args, auto_escalate, audio_state,
                    audio_result, visual_state >>

(***************************************************************************)
(* VisualExtractor.extract, src/src/extractors/visual.py lines 341-445,    *)
(* called from the tier 3 block with keep_video=False                      *)
(***************************************************************************)
Range(q) == { q[i] : i \in 1..Len(q) }

\* frame files are named by their index in the list of timestamps
FramePaths(k) == [i \in 1..k |-> i]

\* the finally clause, lines 432-445, entered with the locals vpath, fpaths;
\* unlink_ok: video_path.unlink() worked; stuck: frames whose unlink failed
VisualCleanup(vpath, fpaths, unlink_ok, stuck) ==
    /\ video_file' = IF vpath # None /\ video_file THEN ~unlink_ok ELSE video_file
    /\ frame_files' = IF ~config.keep_frames /\ fpaths # None
                      THEN frame_files \ (Range(fpaths[1]) \ stuck)
                      ELSE frame_files

\* the exception that leaves extract when e is raised inside the try body:
\* line 440 reads frame_paths, which is unbound before line 391 assigned it
VisualLeaves(e, fpaths) ==
    IF ~config.keep_frames /\ fpaths = None THEN UnboundLocalError ELSE e

\* extract raised e inside its try body after the events pre: finally
\* clause, then analyze ends (lines 310-315 of analyze have no handler)
VisualRaised(pre, e) ==
    /\ \E unlink_ok \in BOOLEAN, stuck \in SUBSET frame_files :
          VisualCleanup(video_path, frame_paths, unlink_ok, stuck)
    /\ trace' = trace \o pre \o <<Raised("visual", VisualLeaves(e, frame_paths))>>
    /\ Raise(VisualLeaves(e, frame_paths))
    /\ UNCHANGED << video_path, frame_paths, audio_result >>

\* a step of extract: the progress callback, which may raise, then work that
\* either raises one of errors or goes on as next says (next: the step when
\* the callback returned and the work succeeded)
VisualStep(message, errors, next) ==
    \/ next
    \/ /\ args.progress_callback
       /\ VisualRaised(<<Progress(message)>>, SinkError)
    \/ \E e \in errors : VisualRaised(progress_callback(message), e)

\* the visual_extractor property (comprehend.py lines 195-213, with
\* VisualExtractor.__init__ and _check_dependencies) and lines 360-366
visual_extract_enter ==
    /\ pc = "visual_enter"
    /\ IF ~_visual_extractor /\ ~deps_available
       THEN /\ trace' = Append(trace, Raised("visual", VisualExtractionError))
            /\ Raise(VisualExtractionError)
            /\ UNCHANGED << _visual_extractor, constructions, visual_state >>
       ELSE /\ _visual_extractor' = TRUE
            /\ constructions' = Built("visual", _visual_extractor)
            /\ video_path' = None
            /\ frame_paths' = None
            /\ \/ /\ trace' = trace \o <<Invoke("visual")>>
                                    \o progress_callback(MsgDownloadingVideo)
                  /\ pc' = "visual_download"
                  /\ UNCHANGED << outcome, video_file, frame_files >>
               \/ /\ args.progress_callback
                  /\ VisualCleanup(None, None, TRUE, {})
                  /\ trace' = trace \o <<Invoke("visual"), Progress(MsgDownloadingVideo),
                                         Raised("visual", VisualLeaves(SinkError, None))>>
                  /\ Raise(VisualLeaves(SinkError, None))
    /\ UNCHANGED << elsewhere, _model, initial_prompt, transcriptions,
                    config, _caption_extractor, _audio_extractor, deps_available,
                    args, tier, auto_escalate, audio_state,
                    audio_result, attempts >>

\* line 367: download_video returns the path of an existing file, raises
\* VisualExtractionError, or subprocess.run raises something else
visual_download ==
    /\ pc = "visual_download"
    /\ \/ /\ video_path' = Some("video.mp4")
          /\ video_file' = TRUE
          /\ pc' = "visual_scenes"
          /\ UNCHANGED << trace, outcome, frame_files, frame_paths, audio_result >>
       \/ \E e \in {VisualExtractionError, BackendError} : VisualRaised(<<>>, e)
    /\ UNCHANGED << elsewhere, lazy_state, instance, args, tier, auto_escalate,
                    audio_state, attempts >>

\* lines 369-386: detect_scenes and the timestamps
visual_scenes ==
    /\ pc = "visual_scenes"
    /\ VisualStep(MsgDetectingScenes, {BackendError},
                  /\ trace' = trace \o progress_callback(MsgDetectingScenes)
                  /\ pc' = "visual_frames"
                  /\ UNCHANGED << outcome, visual_state, audio_result >>)
    /\ UNCHANGED << elsewhere, lazy_state, instance, args, tier, auto_escalate,
                    audio_state, attempts >>

\* lines 388-392: extract_frames writes one file per timestamp and returns
\* their paths (a frame that ffmpeg fails on is skipped), or subprocess.run
\* raises
visual_frames ==
    /\ pc = "visual_frames"
    /\ VisualStep(MsgExtractingFrames, {BackendError},
                  \E k \in 0..MaxFrames :
                     /\ trace' = trace \o progress_callback(MsgExtractingFrames)
                     /\ frame_paths' = Some(FramePaths(k))
                     /\ frame_files' = frame_files \cup Range(FramePaths(k))
                     /\ pc' = IF config.deduplicate /\ k > 0
                              THEN "visual_dedup" ELSE "visual_ocr"
                     /\ UNCHANGED << outcome, video_path, video_file, audio_result >>)
    /\ UNCHANGED << elsewhere, lazy_state, instance, args, tier, auto_escalate,
                    audio_state, attempts >>

\* lines 394-398: deduplicate_frames returns the paths that are in no
\* duplicate list of the hasher (dups: the frames it reports as duplicates)
visual_dedup ==
    /\ pc = "visual_dedup"
    /\ VisualStep(MsgRemovingDuplicates, {BackendError},
                  \E dups \in SUBSET Range(frame_paths[1]) :
                     /\ Cardinality(dups) # 1
                     /\ trace' = trace \o progress_callback(MsgRemovingDuplicates)
                     /\ frame_paths' = Some(SelectSeq(frame_paths[1],
                                                      LAMBDA f : f \notin dups))
                     /\ pc' = "visual_ocr"
                     /\ UNCHANGED << outcome, video_path, video_file, frame_files,
                                     audio_result >>)
    /\ UNCHANGED << elsewhere, lazy_state, instance, args, tier, auto_escalate,
                    audio_state, attempts >>

\* lines 400-430 and the finally clause, then lines 317-330 of analyze;
\* the ocr_model property raises VisualExtractionError for an unsupported
\* engine when the first frame is read, ffprobe output may fail to parse
visual_ocr ==
    /\ pc = "visual_ocr"
    /\ VisualStep(MsgRunningOCR,
                  IF frame_paths[1] # <<>>
                  THEN {VisualExtractionError, BackendError}
                  ELSE {BackendError},
                  \E frames \in FrameLists :
                     /\ Len(frames) = Len(frame_paths[1])
                     /\ \E unlink_ok \in BOOLEAN, stuck \in SUBSET frame_files :
                           VisualCleanup(video_path, frame_paths, unlink_ok, stuck)
                     /\ trace' = trace \o progress_callback(MsgRunningOCR)
                                       \o <<Returned("visual", VisualResult(frames))>>
                     /\ Return(Tier3Result(audio_result[1], VisualResult(frames)))
                     /\ UNCHANGED << video_path, frame_paths, audio_result >>)
    /\ UNCHANGED << elsewhere, lazy_state, instance, args, tier, auto_escalate,
                    audio_state, attempts >>

(***************************************************************************)
(* Tier 3 block, lines 298-315, and the final raise, line 332              *)
(***************************************************************************)
\* tier3_progress that reuses the failure of the audio backend in the tier 2
\* block instead of invoking the backend again
tier3_progress_reuses_failure ==
    /\ pc = "tier3"
    /\ UNCHANGED attempts
    /\ trace' = trace \o progress_callback(MsgStartingVisual)
    /\ \/ /\ Len(attempts) > 1
          /\ Raise(AudioExtractionError)
       \/ /\ Len(attempts) = 1
          /\ pc' = "audio_enter"
          /\ UNCHANGED outcome
       \/ args.progress_callback /\ Raise(SinkError)
    /\ UNCHANGED << elsewhere, lazy_state, instance, args, tier, auto_escalate, audio_state,
                    audio_result, visual_state >>

\* tier3_progress that starts the tier 3 block with the visual backend
tier3_progress_visual_first ==
    /\ pc = "tier3"
    /\ UNCHANGED attempts
    /\ trace' = trace \o progress_callback(MsgStartingVisual)
    /\ \/ pc' = "visual_enter" /\ UNCHANGED outcome
       \/ args.progress_callback /\ Raise(SinkError)
    /\ UNCHANGED << elsewhere, lazy_state, instance, args, tier, auto_escalate, audio_state,
                    audio_result, visual_state >>

\* lines 299-300
tier3_progress ==
    /\ pc = "tier3"
    /\ UNCHANGED attempts
    /\ trace' = trace \o progress_callback(MsgStartingVisual)
    /\ \/ pc' = "audio_enter" /\ UNCHANGED outcome
       \/ args.progress_callback /\ Raise(SinkError)
    /\ UNCHANGED << elsewhere, lazy_state, instance, args, tier, auto_escalate, audio_state,
                    audio_result, visual_state >>

\* line 332
raise_invalid_tier ==
    /\ pc = "invalid"
    /\ Raise(InvalidTier)
    /\ UNCHANGED << elsewhere, lazy_state, instance, args, tier, auto_escalate,
                    audio_state, audio_result, visual_state, trace, attempts >>

Next ==
    \/ analyze_enter
    \/ tier1_progress
    \/ tier1_extract
    \/ tier1_escalate
    \/ tier2_progress
    \/ audio_extract_enter
    \/ audio_download
    \/ audio_transcribe_progress
    \/ audio_transcribe
    \/ tier2_escalate
    \/ tier3_progress
    \/ visual_extract_enter
    \/ visual_download
    \/ visual_scenes
    \/ visual_frames
    \/ visual_dedup
    \/ visual_ocr
    \/ raise_invalid_tier

Spec == Init /\ [][Next]_vars

(***************************************************************************)
(* Sequential analyze calls on one VideoComprehend, as main of             *)
(* src/src/cli.py makes the first one: the configuration is the default    *)
(* one of _load_config with the whisper key initial_prompt that --prompt   *)
(* sets (cli.py lines 220-226).                                            *)
(***************************************************************************)
Prompts == {"Technical talk."}

\* cli.py lines 225-226, before the first call of analyze
set_initial_prompt ==
    /\ pc = "idle"
    /\ ~_audio_extractor
    /\ config.initial_prompt = None
    /\ \E prompt \in Prompts :
          config' = [config EXCEPT !.initial_prompt = Some(prompt)]
    /\ UNCHANGED << elsewhere, lazy_state, _caption_extractor, _audio_extractor,
                    _visual_extractor, deps_available, args, pc, tier,
                    auto_escalate, audio_state, audio_result, visual_state,
                    trace, attempts, outcome >>

\* analyze has returned or raised and the caller is about to call it again:
\* the locals are gone, the instance, its extractors and the files stay
analyze_again ==
    /\ pc = "done"
    /\ pc' = "idle"
    /\ args' = [url_ok |-> TRUE, tier |-> None, auto_escalate |-> None,
                progress_callback |-> FALSE]
    /\ tier' = 1
    /\ auto_escalate' = TRUE
    /\ audio_path' = None
    /\ audio_result' = None
    /\ video_path' = None
    /\ frame_paths' = None
    /\ trace' = <<>>
    /\ attempts' = <<>>
    /\ outcome' = NoOutcome
    /\ transcriptions' = <<>>
    /\ UNCHANGED << elsewhere, instance, _model, initial_prompt, constructions,
                    audio_file, video_file, frame_files >>

SessionNext ==
    \/ Next
    \/ set_initial_prompt
    \/ analyze_again

SessionInit ==
    /\ config = [default_tier |-> 1, auto_escalate |-> TRUE, keep_audio |-> FALSE,
                 keep_frames |-> FALSE, deduplicate |-> TRUE,
                 initial_prompt |-> None]
    /\ deps_available \in BOOLEAN
    /\ Fresh

SessionSpec == SessionInit /\ [][SessionNext]_vars

(***************************************************************************)
(* Analyze calls that run concurrently, in threads, on one VideoComprehend *)
(* for the same video: analyze(url, tier=2, auto_escalate=False) without a *)
(* progress callback.  The code takes no lock, so a thread can be          *)
(* preempted between any two of the steps below.  calls[c] holds the       *)
(* locals of call c; the instance, the audio extractor, its model and the  *)
(* file audio_<id>.m4a of the temporary directory are shared.              *)
(***************************************************************************)
Calls == {"A", "B"}

\* the call c moves to position p
At(c, p) == [calls EXCEPT ![c].pc = p]

\* something was raised inside the try body of extract, or it returns:
\* the finally clause comes next
Leaving(c, e) == [calls EXCEPT ![c].pc = "cleanup", ![c].leaving = e]

\* what the concurrent calls do not touch
outside_calls ==
    << render_state, download, caption, frames_call, config, _caption_extractor,
       _visual_extractor, deps_available, args, pc, tier, auto_escalate,
       audio_path, audio_result, visual_state, trace, attempts, outcome,
       transcriptions >>

\* a thread calls analyze; lines 234-238 and 267-270
call_analyze(c) ==
    /\ c \notin DOMAIN calls
    /\ calls' = (c :> [pc |-> "audio_extractor", audio_path |-> None,
                       leaving |-> "", status |-> "running", error |-> ""]) @@ calls
    /\ UNCHANGED << _audio_extractor, _model, initial_prompt, constructions,
                    audio_file, outside_calls >>

\* `if self._audio_extractor is None:` of the property, comprehend.py line 184
call_audio_extractor_check(c) ==
    /\ c \in DOMAIN calls
    /\ calls[c].pc = "audio_extractor"
    /\ calls' = At(c, IF LazyBuild(_audio_extractor) THEN "build" ELSE "extract")
    /\ UNCHANGED << _audio_extractor, _model, initial_prompt, constructions,
                    audio_file, outside_calls >>

\* lines 185-192: the extractor is built and assigned, whatever another
\* thread assigned since the test; the new extractor has no model yet
call_audio_extractor_build(c) ==
    /\ c \in DOMAIN calls
    /\ calls[c].pc = "build"
    /\ _audio_extractor' = TRUE
    /\ _model' = FALSE
    /\ initial_prompt' = AudioExtractorPrompt(config)
    /\ constructions' = [constructions EXCEPT !.audio = @ + 1]
    /\ calls' = At(c, "extract")
    /\ UNCHANGED << audio_file, outside_calls >>

\* audio.py lines 290-296: download_audio writes audio_<id>.m4a in the
\* temporary directory (lines 177-183), the same path for every call on the
\* same video, or raises
call_download(c) ==
    /\ c \in DOMAIN calls
    /\ calls[c].pc = "extract"
    /\ \/ /\ audio_file' = TRUE
          /\ calls' = [calls EXCEPT ![c].pc = "exists",
                                    ![c].audio_path = Some("audio.m4a")]
       \/ /\ calls' = Leaving(c, AudioExtractionError)
          /\ UNCHANGED audio_file
    /\ UNCHANGED << _audio_extractor, _model, initial_prompt, constructions,
                    outside_calls >>

\* transcribe, lines 235-238: `if not audio_path.exists(): raise`
call_exists(c) ==
    /\ c \in DOMAIN calls
    /\ calls[c].pc = "exists"
    /\ calls' = IF audio_file
                THEN At(c, "model")
                ELSE Leaving(c, AudioExtractionError)
    /\ UNCHANGED << _audio_extractor, _model, initial_prompt, constructions,
                    audio_file, outside_calls >>

\* `if self._model is None:` of the model property, line 149
call_model_check(c) ==
    /\ c \in DOMAIN calls
    /\ calls[c].pc = "model"
    /\ calls' = At(c, IF LazyBuild(_model) THEN "load" ELSE "transcribe")
    /\ UNCHANGED << _audio_extractor, _model, initial_prompt, constructions,
                    audio_file, outside_calls >>

\* lines 150-163: WhisperModel(...) is built and assigned, or raises
call_model_load(c) ==
    /\ c \in DOMAIN calls
    /\ calls[c].pc = "load"
    /\ \/ /\ _model' = TRUE
          /\ constructions' = [constructions EXCEPT !.model = @ + 1]
          /\ calls' = At(c, "transcribe")
       \/ /\ calls' = Leaving(c, BackendError)
          /\ UNCHANGED << _model, constructions >>
    /\ UNCHANGED << _audio_extractor, initial_prompt, audio_file, outside_calls >>

\* lines 240-271: the model reads the file and transcribes it; it raises
\* when the file is gone or when the inference fails
call_transcribe(c) ==
    /\ c \in DOMAIN calls
    /\ calls[c].pc = "transcribe"
    /\ \/ /\ audio_file
          /\ calls' = Leaving(c, "")
       \/ calls' = Leaving(c, BackendError)
    /\ UNCHANGED << _audio_extractor, _model, initial_prompt, constructions,
                    audio_file, outside_calls >>

\* the finally clause, lines 305-311, then extract and analyze end
call_cleanup(c) ==
    /\ c \in DOMAIN calls
    /\ calls[c].pc = "cleanup"
    /\ \E unlink_ok \in BOOLEAN :
          audio_file' = IF calls[c].audio_path # None /\ audio_file /\ ~config.keep_audio
                        THEN ~unlink_ok
                        ELSE audio_file
    /\ calls' = [calls EXCEPT ![c].pc = "done",
                              ![c].status = IF calls[c].leaving = ""
                                            THEN "returned" ELSE "raised",
                              ![c].error = calls[c].leaving]
    /\ UNCHANGED << _audio_extractor, _model, initial_prompt, constructions,
                    outside_calls >>

ConcurrentNext ==
    \E c \in Calls :
        \/ call_analyze(c)
        \/ call_audio_extractor_check(c)
        \/ call_audio_extractor_build(c)
        \/ call_download(c)
        \/ call_exists(c)
        \/ call_model_check(c)
        \/ call_model_load(c)
        \/ call_transcribe(c)
        \/ call_cleanup(c)

\* a fresh VideoComprehend with the default configuration
ConcurrentInit ==
    /\ Init
    /\ config = [default_tier |-> 1, auto_escalate |-> TRUE, keep_audio |-> FALSE,
                 keep_frames |-> FALSE, deduplicate |-> TRUE]
    /\ deps_available

ConcurrentSpec == ConcurrentInit /\ [][ConcurrentNext]_vars

(***************************************************************************)
(* Rendering of a result: main of src/src/cli.py, lines 256-282, with      *)
(* ComprehendResult.to_markdown and _format_with_timestamps of             *)
(* src/src/comprehend.py.  Texts that the code joins are kept as the       *)
(* sequence of the joined pieces.                                          *)
(***************************************************************************)
\* number of segments of a rendered transcript
MaxSegments == 3
\* default of --interval and of timestamp_interval
DefaultInterval == 30
\* values of --interval that are positive
Intervals == {DefaultInterval, 2 * DefaultInterval}

\* start times of segments, in seconds
StartTimes == {0, 10, 35, 70, 3700}
\* CaptionSegment(text, start, duration) and TranscriptSegment(text, start, end)
CaptionSegments == [text : SegTexts, start : StartTimes, duration : {5}]
TranscriptSegments ==
    { [text |-> t, start |-> b, end |-> b + 4] : t \in SegTexts, b \in StartTimes }

\* segments come in the order of their start times
Ordered(segments) ==
    \A i \in 1..(Len(segments) - 1) : segments[i].start <= segments[i + 1].start
OrderedSegments(S) == { q \in SeqsUpTo(S, MaxSegments) : Ordered(q) }

\* what the caption backend and the audio backend return for given segments
CaptionResult(segments) ==
    [segments |-> segments, language |-> "en", text |-> CaptionText(segments)]
TranscriptResult(segments) ==
    [segments |-> segments, language |-> "en",
     duration |-> IF segments = <<>> THEN 0 ELSE segments[Len(segments)].end,
     text |-> TranscriptText(segments)]

\* the results analyze can return, by the block that built them
RenderResults ==
    { Tier1Result(CaptionResult(q)) : q \in OrderedSegments(CaptionSegments) }
    \cup { Tier2Result(TranscriptResult(q)) : q \in OrderedSegments(TranscriptSegments) }
    \cup { Tier3Result(TranscriptResult(q), VisualResult(f)) :
             q \in OrderedSegments(TranscriptSegments), f \in FrameLists }

\* _format_time: MM:SS, or HH:MM:SS from one hour on, as the tuple of its fields
_format_time(seconds) ==
    LET hours == seconds \div 3600
        minutes == (seconds % 3600) \div 60
        secs == seconds % 60
    IN  IF hours > 0 THEN <<hours, minutes, secs>> ELSE <<minutes, secs>>

\* one flushed group: the label line `**[from - to]**` (to = None stands for
\* the word "end") and the texts joined into the line below it
Group(from, to, texts) ==
    [label |-> [from |-> _format_time(from),
                to |-> IF to = None THEN None ELSE Some(_format_time(to[1]))],
     texts |-> texts]

\* GroupStep that flushes without testing the buffer
GroupStepFlushesEmpty(st, seg, interval) ==
    LET expected_start == (seg.start \div interval) * interval
        flush == expected_start > st.current_interval_start
    IN  [current_interval_start |->
            IF flush THEN expected_start ELSE st.current_interval_start,
         current_texts |->
            (IF flush THEN <<>> ELSE st.current_texts) \o <<Strip(seg.text)>>,
         output_lines |->
            IF flush
            THEN Append(st.output_lines,
                        Group(st.current_interval_start,
                              Some(st.current_interval_start + interval),
                              st.current_texts))
            ELSE st.output_lines]

\* GroupStep that does not empty the buffer after a flush
GroupStepKeepsBuffer(st, seg, interval) ==
    LET expected_start == (seg.start \div interval) * interval
        flush == expected_start > st.current_interval_start /\ st.current_texts # <<>>
    IN  [current_interval_start |->
            IF flush THEN expected_start ELSE st.current_interval_start,
         current_texts |-> st.current_texts \o <<Strip(seg.text)>>,
         output_lines |->
            IF flush
            THEN Append(st.output_lines,
                        Group(st.current_interval_start,
                              Some(st.current_interval_start + interval),
                              st.current_texts))
            ELSE st.output_lines]

\* the body of the loop of _format_with_timestamps, lines 80-95, on the
\* locals st of the function
GroupStep(st, seg, interval) ==
    LET expected_start == (seg.start \div interval) * interval
        flush == expected_start > st.current_interval_start /\ st.current_texts # <<>>
    IN  [current_interval_start |->
            IF flush THEN expected_start ELSE st.current_interval_start,
         current_texts |->
            (IF flush THEN <<>> ELSE st.current_texts) \o <<Strip(seg.text)>>,
         output_lines |->
            IF flush
            THEN Append(st.output_lines,
                        Group(st.current_interval_start,
                              Some(st.current_interval_start + interval),
                              st.current_texts))
            ELSE st.output_lines]

\* the locals of _format_with_timestamps after the first i segments
RECURSIVE GroupLoop(_, _, _)
GroupLoop(segments, interval, i) ==
    IF i = 0
    THEN [current_interval_start |-> 0, current_texts |-> <<>>,
          output_lines |-> <<>>]
    ELSE GroupStep(GroupLoop(segments, interval, i - 1), segments[i], interval)

\* _format_with_timestamps, lines 71-101: the groups it writes, in order
_format_with_timestamps(segments, interval) ==
    IF segments = <<>> THEN <<>>
    ELSE LET st == GroupLoop(segments, interval, Len(segments))
         IN  IF st.current_texts # <<>>
             THEN Append(st.output_lines,
                         Group(st.current_interval_start, None, st.current_texts))
             ELSE st.output_lines

\* SegmentEnd that takes the default of getattr without the duration
SegmentEndWithoutDuration(seg) ==
    IF "end" \in DOMAIN seg THEN seg.end ELSE seg.start

\* getattr(s, 'end', ...) of line 269: the field of a TranscriptSegment, the
\* property of a CaptionSegment (captions.py lines 26-28)
SegmentEnd(seg) ==
    IF "end" \in DOMAIN seg THEN seg.end ELSE seg.start + seg.duration

\* the object dumped by lines 259-273
to_json(r) ==
    [metadata |-> [tier_used |-> r.metadata.tier_used,
                   language |-> r.metadata.language,
                   duration |-> r.metadata.duration],
     transcript |-> r.transcript_text,
     segments |-> [i \in 1..Len(r.transcript_segments) |->
                     [text |-> r.transcript_segments[i].text,
                      start |-> r.transcript_segments[i].start,
                      end |-> SegmentEnd(r.transcript_segments[i])]],
     visual_text |-> IF r.visual_text # <<>> THEN Some(r.visual_text) ELSE None]

\* to_plain that always writes the separator
to_plain_with_separator(r) ==
    [transcript |-> r.transcript_text, separator |-> TRUE, visual |-> r.visual_text]

\* the text built by lines 275-277: transcript_text, then "\n\n---\n\n" and
\* visual_text when visual_text is not empty
to_plain(r) ==
    IF r.visual_text # <<>>
    THEN [transcript |-> r.transcript_text, separator |-> TRUE,
          visual |-> r.visual_text]
    ELSE [transcript |-> r.transcript_text, separator |-> FALSE, visual |-> <<>>]

\* line 59: hasattr(segments[0] if segments else None, 'start')
HasStart(segments) == segments # <<>> /\ "start" \in DOMAIN segments[1]

\* to_markdown that decides on the visual section by has_visual_content
to_markdown_by_flag(r, include_timestamps, timestamp_interval) ==
    [tier_used |-> r.metadata.tier_used,
     language |-> r.metadata.language,
     duration |->
        IF r.metadata.duration # None /\ r.metadata.duration # Some(0)
        THEN Some(<<r.metadata.duration[1] \div 60, r.metadata.duration[1] % 60>>)
        ELSE None,
     timestamps |-> include_timestamps /\ HasStart(r.transcript_segments),
     groups |->
        IF include_timestamps /\ HasStart(r.transcript_segments)
        THEN _format_with_timestamps(r.transcript_segments, timestamp_interval)
        ELSE <<>>,
     text |->
        IF include_timestamps /\ HasStart(r.transcript_segments)
        THEN <<>> ELSE r.transcript_text,
     visual |-> IF r.metadata.has_visual_content THEN Some(r.visual_text) ELSE None]

\* to_markdown, lines 42-69: the header fields, the transcript body (the
\* groups when timestamps is set, the flat text otherwise) and the text of
\* the section "## Visual Content (OCR)", None when it is not written
to_markdown(r, include_timestamps, timestamp_interval) ==
    [tier_used |-> r.metadata.tier_used,
     language |-> r.metadata.language,
     duration |->
        IF r.metadata.duration # None /\ r.metadata.duration # Some(0)
        THEN Some(<<r.metadata.duration[1] \div 60, r.metadata.duration[1] % 60>>)
        ELSE None,
     timestamps |-> include_timestamps /\ HasStart(r.transcript_segments),
     groups |->
        IF include_timestamps /\ HasStart(r.transcript_segments)
        THEN _format_with_timestamps(r.transcript_segments, timestamp_interval)
        ELSE <<>>,
     text |->
        IF include_timestamps /\ HasStart(r.transcript_segments)
        THEN <<>> ELSE r.transcript_text,
     visual |-> IF r.visual_text # <<>> THEN Some(r.visual_text) ELSE None]

\* a call with the options main passes on
RenderCall(output_format, no_timestamps, interval) ==
    [output_format |-> output_format, no_timestamps |-> no_timestamps,
     interval |-> interval]

\* the variables of analyze, which the rendering leaves alone
analyze_state ==
    << instance, args, pc, tier, auto_escalate, audio_state, audio_result,
       visual_state, trace, attempts, outcome, lazy_state >>

\* analyze has returned a result and main is about to render it
RenderInit ==
    /\ config = [default_tier |-> 1, auto_escalate |-> TRUE, keep_audio |-> FALSE,
                 keep_frames |-> FALSE, deduplicate |-> TRUE]
    /\ _caption_extractor = FALSE
    /\ _audio_extractor = FALSE
    /\ _visual_extractor = FALSE
    /\ deps_available = TRUE
    /\ args = [url_ok |-> TRUE, tier |-> None, auto_escalate |-> None,
               progress_callback |-> FALSE]
    /\ pc = "done"
    /\ tier = 1
    /\ auto_escalate = TRUE
    /\ audio_path = None
    /\ audio_file = FALSE
    /\ audio_result = None
    /\ video_path = None
    /\ video_file = FALSE
    /\ frame_paths = None
    /\ frame_files = {}
    /\ trace = <<>>
    /\ attempts = <<>>
    /\ \E r \in RenderResults :
          outcome = [status |-> "success", error |-> "", result |-> Some(r)]
    /\ render_call = None
    /\ output_text = None
    /\ _model = FALSE
    /\ initial_prompt = None
    /\ constructions = NoConstructions
    /\ transcriptions = <<>>
    /\ download = NoDownload
    /\ caption = NoCaption
    /\ calls = NoCalls
    /\ frames_call = NoFramesCall

\* lines 257-273
render_json ==
    /\ pc = "done" /\ outcome.status = "success" /\ render_call = None
    /\ \E no_timestamps \in BOOLEAN, interval \in Intervals :
          render_call' = Some(RenderCall("json", no_timestamps, interval))
    /\ output_text' = Some(to_json(outcome.result[1]))
    /\ UNCHANGED << analyze_state, download, caption, calls, frames_call >>

\* lines 274-277
render_plain ==
    /\ pc = "done" /\ outcome.status = "success" /\ render_call = None
    /\ \E no_timestamps \in BOOLEAN, interval \in Intervals :
          render_call' = Some(RenderCall("plain", no_timestamps, interval))
    /\ output_text' = Some(to_plain(outcome.result[1]))
    /\ UNCHANGED << analyze_state, download, caption, calls, frames_call >>

\* lines 278-282
render_markdown ==
    /\ pc = "done" /\ outcome.status = "success" /\ render_call = None
    /\ \E no_timestamps \in BOOLEAN, interval \in Intervals :
          /\ render_call' = Some(RenderCall("markdown", no_timestamps, interval))
          /\ output_text' = Some(to_markdown(outcome.result[1], ~no_timestamps,
                                             interval))
    /\ UNCHANGED << analyze_state, download, caption, calls, frames_call >>

\* _format_with_timestamps called on the segments of the result
format_with_timestamps ==
    /\ pc = "done" /\ outcome.status = "success" /\ render_call = None
    /\ \E interval \in Intervals :
          /\ render_call' = Some(RenderCall("timestamps", FALSE, interval))
          /\ output_text' =
                Some(_format_with_timestamps(outcome.result[1].transcript_segments,
                                             interval))
    /\ UNCHANGED << analyze_state, download, caption, calls, frames_call >>

RenderNext ==
    \/ render_json
    \/ render_plain
    \/ render_markdown
    \/ format_with_timestamps

RenderSpec == RenderInit /\ [][RenderNext]_vars

(***************************************************************************)
(* One call of AudioExtractor.download_audio, src/src/extractors/audio.py  *)
(* lines 166-223, with ensure_ytdlp_updated, lines 18-41.  The field runs  *)
(* of download lists what each run_download() met, the field updates what  *)
(* each ensure_ytdlp_updated() returned.                                   *)
(***************************************************************************)
\* the longest stderr of yt-dlp, in phrases
MaxStderr == 2

\* what yt-dlp may write on stderr
Stderrs == SeqsUpTo({"ERROR: ", "403", "Video unavailable"}, MaxStderr)

\* what one run_download() meets (lines 198-209): yt-dlp exits 0 and prints a
\* path of a file that exists or not, yt-dlp exits non-zero
\* (CalledProcessError, check=True), or subprocess.run raises something else
RunOutcomes ==
    [kind : {"path"}, exists : BOOLEAN]
      \cup [kind : {"CalledProcessError"}, stderr : Stderrs]
      \cup [kind : {"OSError"}]

\* what run_download() does with what it met: "" when it returns the path,
\* else the exception it raises
run_download(o) ==
    IF o.kind = "path"
    THEN IF o.exists THEN "" ELSE AudioExtractionError
    ELSE o.kind

\* download_audio is left with the exception e, or returns when e = ""
Downloaded(d, e) ==
    [d EXCEPT !.pc = "done",
              !.status = IF e = "" THEN "returned" ELSE "raised",
              !.error = e]

\* lines 211-216 and 221-223: the first run_download() raised e (stderr is
\* e.stderr of a CalledProcessError) or returned (e = "")
FirstRunHandled(d, e, stderr) ==
    IF e = "" THEN Downloaded(d, "")
    ELSE IF e = "CalledProcessError"
         THEN IF Contains(stderr, "403")
              THEN [d EXCEPT !.pc = "update"]
              ELSE Downloaded(d, AudioExtractionError)
         ELSE Downloaded(d, AudioExtractionError)

\* lines 217-220: the second run_download() runs inside the handler of
\* CalledProcessError, where only `except CalledProcessError as e2` applies:
\* any other exception leaves download_audio as it is, the sibling clause
\* `except Exception` of line 222 does not cover the handler
SecondRunHandled(d, e) ==
    IF e = "CalledProcessError"
    THEN Downloaded(d, AudioExtractionError)
    ELSE IF e = "OSError" THEN Downloaded(d, BackendError)
    ELSE Downloaded(d, e)

\* lines 177-183: the output template; mkdir of the temporary directory is
\* outside the try statement
download_audio_enter ==
    /\ download.pc = "idle"
    /\ \E output_path \in {None, Some("audio.m4a")} :
          \/ download' = [pc |-> "first", output_path |-> output_path, runs |-> <<>>,
                          updates |-> <<>>, status |-> "running", error |-> ""]
          \/ /\ output_path = None
             /\ download' = [pc |-> "done", output_path |-> output_path, runs |-> <<>>,
                             updates |-> <<>>, status |-> "raised",
                             error |-> BackendError]
    /\ UNCHANGED << analyze_state, render_state, caption, calls, frames_call >>

\* lines 211-212 and the handlers
download_first_run ==
    /\ download.pc = "first"
    /\ \E o \in RunOutcomes :
          download' = FirstRunHandled([download EXCEPT !.runs = Append(@, o)],
                                      run_download(o),
                                      IF o.kind = "CalledProcessError"
                                      THEN o.stderr ELSE <<>>)
    /\ UNCHANGED << analyze_state, render_state, caption, calls, frames_call >>

\* line 216: ensure_ytdlp_updated returns whether pip succeeded and catches
\* every exception itself
download_update ==
    /\ download.pc = "update"
    /\ \E updated \in BOOLEAN :
          download' = [download EXCEPT !.pc = "retry",
                                       !.updates = Append(@, updated)]
    /\ UNCHANGED << analyze_state, render_state, caption, calls, frames_call >>

\* lines 217-220
download_retry ==
    /\ download.pc = "retry"
    /\ \E o \in RunOutcomes :
          download' = SecondRunHandled([download EXCEPT !.runs = Append(@, o)],
                                       run_download(o))
    /\ UNCHANGED << analyze_state, render_state, caption, calls, frames_call >>

DownloadNext ==
    \/ download_audio_enter
    \/ download_first_run
    \/ download_update
    \/ download_retry

\* an AudioExtractor on which download_audio is called, as extract does
DownloadInit ==
    /\ Init
    /\ config = [default_tier |-> 1, auto_escalate |-> TRUE, keep_audio |-> FALSE,
                 keep_frames |-> FALSE, deduplicate |-> TRUE]
    /\ deps_available

DownloadSpec == DownloadInit /\ [][DownloadNext]_vars

(***************************************************************************)
(* One call of CaptionExtractor.extract, src/src/extractors/captions.py    *)
(* lines 117-200, on the extractor that the caption_extractor property     *)
(* builds: preferred_languages is ["en"].                                  *)
(***************************************************************************)
\* the most transcripts a video has
MaxTranscripts == 2

\* the transcripts of a video, in the order the list iterates them
Transcripts == [language_code : {"en", "de"}, is_generated : BOOLEAN]
TranscriptLists == SeqsUpTo(Transcripts, MaxTranscripts)

\* the exceptions of the transcript library that extract names
TranscriptsDisabled == "TranscriptsDisabled"
VideoUnavailable == "VideoUnavailable"
NoTranscriptFound == "NoTranscriptFound"
\* any other subclass of Exception (network, parsing), and an interrupt,
\* which is a BaseException
OtherException == "Exception"
Interrupt == "KeyboardInterrupt"

\* the handlers of lines 187-198 alone, without `except Exception`
CaptionHandlersNamedOnly(e) ==
    IF e \in {TranscriptsDisabled, VideoUnavailable, NoTranscriptFound}
    THEN CaptionExtractionError
    ELSE e

\* lines 187-200: what leaves extract when e is raised inside the try body;
\* `except Exception` also catches the CaptionExtractionError of line 164
CaptionHandlers(e) ==
    IF e = Interrupt THEN e ELSE CaptionExtractionError

\* extract raised e inside its try body
CaptionRaised(c, e) ==
    [c EXCEPT !.pc = "done", !.status = "raised", !.error = CaptionHandlers(e)]

\* transcript_list.find_transcript(["en"]), line 143: the manually created
\* transcript of that language, else the generated one, else None where the
\* library raises NoTranscriptFound
find_transcript(transcript_list, lang) ==
    LET manual == SelectSeq(transcript_list,
                            LAMBDA t : t.language_code = lang /\ ~t.is_generated)
        generated == SelectSeq(transcript_list,
                               LAMBDA t : t.language_code = lang /\ t.is_generated)
    IN  IF manual # <<>> THEN Some(manual[1])
        ELSE IF generated # <<>> THEN Some(generated[1])
        ELSE None

\* line 130: extract_video_id is called before the try statement
caption_extract_enter ==
    /\ caption.pc = "idle"
    /\ \E url \in Urls :
          caption' = IF extract_video_id(url) = None
                     THEN [pc |-> "done", parsed |-> FALSE, transcript_list |-> None,
                           transcript |-> None, is_generated |-> FALSE,
                           status |-> "raised", error |-> InvalidReference,
                           result |-> None]
                     ELSE [pc |-> "list", parsed |-> TRUE, transcript_list |-> None,
                           transcript |-> None, is_generated |-> FALSE,
                           status |-> "running", error |-> "", result |-> None]
    /\ UNCHANGED << analyze_state, render_state, download, calls, frames_call >>

\* line 134: self._api.list(video_id)
caption_list ==
    /\ caption.pc = "list"
    /\ \/ \E e \in {TranscriptsDisabled, VideoUnavailable, OtherException, Interrupt} :
             caption' = CaptionRaised(caption, e)
       \/ \E transcript_list \in TranscriptLists :
             caption' = [caption EXCEPT !.pc = "find",
                                        !.transcript_list = Some(transcript_list)]
    /\ UNCHANGED << analyze_state, render_state, download, calls, frames_call >>

\* lines 137-166: the preferred language, else the first transcript of the
\* list, translated when the translation works
caption_find ==
    /\ caption.pc = "find"
    /\ LET transcript_list == caption.transcript_list[1]
           found == find_transcript(transcript_list, "en")
       IN  IF found # None
           THEN caption' = [caption EXCEPT !.pc = "fetch",
                                           !.transcript = found,
                                           !.is_generated = found[1].is_generated]
           ELSE IF transcript_list = <<>>
           THEN caption' = CaptionRaised(caption, CaptionExtractionError)
           ELSE \E translated \in BOOLEAN :
                   caption' =
                      [caption EXCEPT
                         !.pc = "fetch",
                         !.transcript =
                            Some(IF translated
                                 THEN [transcript_list[1] EXCEPT !.language_code = "en"]
                                 ELSE transcript_list[1]),
                         !.is_generated = transcript_list[1].is_generated]
    /\ UNCHANGED << analyze_state, render_state, download, calls, frames_call >>

\* lines 169-185: fetch and the CaptionResult
caption_fetch ==
    /\ caption.pc = "fetch"
    /\ \/ \E e \in {OtherException, NoTranscriptFound, Interrupt} :
             caption' = CaptionRaised(caption, e)
       \/ \E segments \in {CaptionSegs1, CaptionSegs2} :
             caption' = [caption EXCEPT
                           !.pc = "done",
                           !.status = "returned",
                           !.result = Some([segments |-> segments,
                                            language |-> caption.transcript[1].language_code,
                                            is_generated |-> caption.is_generated,
                                            text |-> CaptionText(segments)])]
    /\ UNCHANGED << analyze_state, render_state, download, calls, frames_call >>

CaptionNext ==
    \/ caption_extract_enter
    \/ caption_list
    \/ caption_find
    \/ caption_fetch

\* the caption extractor of a fresh VideoComprehend
CaptionInit ==
    /\ Init
    /\ config = [default_tier |-> 1, auto_escalate |-> TRUE, keep_audio |-> FALSE,
                 keep_frames |-> FALSE, deduplicate |-> TRUE]
    /\ deps_available

CaptionSpec == CaptionInit /\ [][CaptionNext]_vars

(***************************************************************************)
(* Properties                                                              *)
(***************************************************************************)
Done == pc = "done"
Failed == Done /\ outcome.status = "failed"
Succeeded == Done /\ outcome.status = "success"
Result == outcome.result[1]
Events == 1..Len(trace)

\* what the call was started with
startTier == StartTier(args.tier)
autoEscalate == StartEscalate(args.auto_escalate)

\* the soft failure of tier n in the error taxonomy, and the backend raising it
SoftFailure(n) == IF n = 1 THEN CaptionExtractionError ELSE AudioExtractionError
SoftBackend(n) == IF n = 1 THEN "caption" ELSE "audio"

\* event i is the backend of tier block n failing with that tier's soft failure
IsSoftFailure(i, n) ==
    /\ trace[i].kind = "raise"
    /\ trace[i].block = n
    /\ trace[i].backend = SoftBackend(n)
    /\ trace[i].error = SoftFailure(n)

\* C1: when analyze is called with a tier in 1..3 and autoEscalate = false and
\* the backend of that tier fails with the tier's soft failure, analyze
\* raises that failure and nothing is invoked after it.
C1_SoftFailureRaisedWithoutEscalation ==
    \A i \in Events :
        (startTier \in 1..3 /\ ~autoEscalate /\ IsSoftFailure(i, startTier))
        => /\ Failed
           /\ outcome.error = SoftFailure(startTier)
           /\ attempts = <<startTier>>
           /\ \A j \in Events : j > i => trace[j].kind # "invoke"

C1_Witness ==
    /\ Failed
    /\ startTier = 3
    /\ ~autoEscalate
    /\ outcome.error = AudioExtractionError
    /\ \E i \in Events : IsSoftFailure(i, 3)

\* event i ends the attempt of its tier block successfully
IsSuccess(i) ==
    /\ trace[i].kind = "return"
    /\ \/ trace[i].block = 1 /\ trace[i].backend = "caption"
       \/ trace[i].block = 2 /\ trace[i].backend = "audio"
       \/ trace[i].block = 3 /\ trace[i].backend = "visual"

\* C2: the attempted tiers form a contiguous increasing run that starts at
\* startTier, goes up by exactly one, never goes past tier 3 and goes on only
\* after the soft failure of the tier before; a success ends the call and
\* nothing is invoked after it.
C2_ContiguousIncreasingRun ==
    /\ \A k \in 1..Len(attempts) : attempts[k] \in 1..3
    /\ \A k \in 2..Len(attempts) : attempts[k] = attempts[k-1] + 1
    /\ (pc # "idle" /\ args.url_ok /\ startTier \in 1..3)
          => (attempts # <<>> /\ attempts[1] = startTier)
    /\ \A k \in 1..(Len(attempts) - 1) :
          \E i \in Events : IsSoftFailure(i, attempts[k])
    /\ \A i \in Events : IsSuccess(i)
          => /\ Succeeded
             /\ i = Len(trace)
             /\ trace[i].block = attempts[Len(attempts)]

C2_Witness ==
    /\ Succeeded
    /\ attempts = <<1, 2, 3>>
    /\ IsSuccess(Len(trace))

\* C3: a requested tier outside 1..3 makes analyze fail at once with the
\* invalid-tier error: no tier is attempted, nothing is invoked and no
\* progress event is emitted.
C3_InvalidTierRejected ==
    (pc # "idle" /\ args.url_ok /\ args.tier # None /\ args.tier[1] \notin 1..3)
    => /\ attempts = <<>>
       /\ trace = <<>>
       /\ pc \in {"invalid", "done"}
       /\ Done => (outcome.status = "failed" /\ outcome.error = InvalidTier)

\* the errors that the handler of tier block n catches
Caught(n) ==
    IF n = 1 THEN {CaptionExtractionError}
    ELSE IF n = 2 THEN {AudioExtractionError}
    ELSE {}

\* C4: an error of a backend other than the soft failure caught in the tier
\* block being attempted ends the call at once with that same error,
\* whatever autoEscalate is, and no backend is invoked afterwards.
C4_OtherErrorsPropagate ==
    \A i \in Events :
        (trace[i].kind = "raise" /\ trace[i].error \notin Caught(trace[i].block))
        => /\ Failed
           /\ outcome.error = trace[i].error
           /\ i = Len(trace)
           /\ attempts[Len(attempts)] = trace[i].block

C4_Witness ==
    /\ Failed
    /\ autoEscalate
    /\ attempts = <<1>>
    /\ outcome.error = BackendError
    /\ trace[Len(trace)] = Raised("caption", BackendError)

\* C5: an exception raised by the progress callback never aborts analyze: no
\* call ends with the exception of the callback as its error.
C5_SinkFailureNeverAborts ==
    ~(Failed /\ outcome.error = SinkError)

\* event i is the progress event announcing the escalation to tier n
IsEscalationEvent(i, n) ==
    /\ trace[i].kind = "progress"
    /\ Contains(trace[i].msg,
                IF n = 2 THEN "Escalating to Tier 2" ELSE "Escalating to Tier 3")

\* the handler of tier block n took its escalation branch: the backend of the
\* block failed softly and auto_escalate is set
Escalation(n) == autoEscalate /\ \E i \in Events : IsSoftFailure(i, n)

\* the position of the escalation branch of the handler of tier block n
EscalationBranch(n) == IF n = 1 THEN "tier1_escalate" ELSE "tier2_escalate"

\* C6: with a progress callback, "Escalating to Tier n+1" is emitted exactly
\* when the handler of tier n escalates, once, right after the soft failure
\* and before anything of tier n+1 is invoked; in the scenario of a caption
\* soft failure followed by an audio success the result has tier_used = 2.
C6_EscalationEventBeforeNextTier ==
    args.progress_callback =>
    /\ \A n \in {1, 2} :
          /\ (\E i \in Events : IsEscalationEvent(i, n + 1))
                <=> (Escalation(n) /\ pc # EscalationBranch(n))
          /\ \A i \in Events :
                IsEscalationEvent(i, n + 1)
                => \A j \in Events : IsEscalationEvent(j, n + 1) => i = j
          /\ \A i \in Events :
                IsEscalationEvent(i, n + 1) => (i > 1 /\ IsSoftFailure(i - 1, n))
          /\ \A j \in Events :
                (trace[j].kind = "invoke" /\ trace[j].block = n + 1
                    /\ \E k \in 1..Len(attempts) : attempts[k] = n)
                => \E i \in 1..(j - 1) : IsEscalationEvent(i, n + 1)
    /\ \A j \in Events :
          ( /\ trace[j].kind = "return" /\ trace[j].backend = "audio"
            /\ trace[j].block = 2
            /\ attempts[1] = 1
            /\ autoEscalate )
          => /\ Succeeded
             /\ Result.metadata.tier_used = 2
             /\ \E e \in 2..(j - 2) :
                   /\ IsSoftFailure(e - 1, 1)
                   /\ IsEscalationEvent(e, 2)
                   /\ \E a \in (e + 1)..(j - 1) : trace[a] = Invoke("audio")

C6_Witness ==
    /\ Succeeded
    /\ args.progress_callback
    /\ attempts = <<1, 2>>
    /\ Result.metadata.tier_used = 2
    /\ \E i \in Events : IsEscalationEvent(i, 2)

\* C7: a returned result with non-empty visual_text has tier_used = 3; a result
\* with tier_used 1 or 2 has empty visual_text and empty visual_frames.
C7_VisualTextOnlyAtTier3 ==
    Succeeded =>
    /\ Result.visual_text # <<>> => Result.metadata.tier_used = 3
    /\ Result.metadata.tier_used \in {1, 2}
          => (Result.visual_text = <<>> /\ Result.visual_frames = <<>>)

C7_Witness ==
    /\ Succeeded
    /\ Result.visual_text # <<>>
    /\ Result.metadata.tier_used = 3

\* C8: a returned result has has_visual_content exactly when visual_frames is
\* not empty.
C8_HasVisualContentIffFrames ==
    Succeeded =>
        (Result.metadata.has_visual_content <=> Result.visual_frames # <<>>)

C8_Witness ==
    /\ Succeeded
    /\ Result.metadata.tier_used = 3
    /\ Result.visual_frames = <<>>
    /\ ~Result.metadata.has_visual_content

\* C9: a call that succeeds in the tier 3 block invoked the audio backend and
\* then the visual backend in that block and both returned; the result has
\* tier_used = 3, transcript, language and duration of that audio return and
\* visual text and frames of the visual return.
C9_Tier3CombinesAudioAndVisual ==
    /\ \A j \in Events :
          (trace[j].kind = "invoke" /\ trace[j].backend = "visual")
          => \E i \in 1..(j - 1) :
                /\ trace[i].kind = "return" /\ trace[i].backend = "audio"
                /\ trace[i].block = 3
    /\ (Succeeded /\ Result.metadata.tier_used = 3) => attempts[Len(attempts)] = 3
    /\ (Succeeded /\ attempts[Len(attempts)] = 3) =>
          LET v == Len(trace) IN
          /\ trace[v].kind = "return" /\ trace[v].backend = "visual"
          /\ Result.metadata.tier_used = 3
          /\ Result.visual_text = trace[v].value[1].text
          /\ Result.visual_frames = trace[v].value[1].frames
          /\ \E a \in Events :
                /\ trace[a].kind = "return" /\ trace[a].backend = "audio"
                /\ trace[a].block = 3
                /\ \E ia \in 1..(a - 1) : trace[ia] = Invoke("audio")
                /\ \E iv \in (a + 1)..(v - 1) : trace[iv] = Invoke("visual")
                /\ Result.transcript_text = trace[a].value[1].text
                /\ Result.transcript_segments = trace[a].value[1].segments
                /\ Result.metadata.language = trace[a].value[1].language
                /\ Result.metadata.duration = Some(trace[a].value[1].duration)

C9_Witness ==
    /\ Succeeded
    /\ attempts = <<2, 3>>
    /\ Result.metadata.tier_used = 3
    /\ Result.visual_frames # <<>>

\* C10: a returned result has tier_used = the last attempted tier, every tier
\* attempted before it failed softly and nothing succeeded before; at tier 1
\* it carries the caption backend's transcript, no visual content and no
\* duration, and neither audio nor visual backend was invoked; at tier 2 it
\* carries transcript and duration of the audio backend.
C10_TierUsedIsFirstSuccess ==
    Succeeded =>
    /\ Result.metadata.tier_used = attempts[Len(attempts)]
    /\ \A k \in 1..(Len(attempts) - 1) :
          \E i \in Events : IsSoftFailure(i, attempts[k])
    /\ \A i \in Events : IsSuccess(i) => i = Len(trace)
    /\ IsSuccess(Len(trace))
    /\ Result.metadata.tier_used = 1 =>
          /\ trace[Len(trace)].backend = "caption"
          /\ Result.transcript_text = trace[Len(trace)].value[1].text
          /\ Result.transcript_segments = trace[Len(trace)].value[1].segments
          /\ Result.metadata.language = trace[Len(trace)].value[1].language
          /\ Result.metadata.duration = None
          /\ Result.visual_text = <<>> /\ Result.visual_frames = <<>>
          /\ ~Result.metadata.has_visual_content
          /\ \A i \in Events :
                trace[i].kind = "invoke" => trace[i].backend = "caption"
          /\ ~_audio_extractor /\ ~_visual_extractor
    /\ Result.metadata.tier_used = 2 =>
          /\ trace[Len(trace)].backend = "audio"
          /\ Result.transcript_text = trace[Len(trace)].value[1].text
          /\ Result.transcript_segments = trace[Len(trace)].value[1].segments
          /\ Result.metadata.language = trace[Len(trace)].value[1].language
          /\ Result.metadata.duration = Some(trace[Len(trace)].value[1].duration)

C10_Witness ==
    /\ Succeeded
    /\ attempts = <<1, 2>>
    /\ Result.metadata.tier_used = 2
    /\ Result.metadata.duration = Some(70)


\* C11: when a call that entered a tier block fails, the error it raises is
\* the error with which the backend of the last attempted tier failed, that
\* failure is the last thing that happened, and every backend failure before
\* it is the soft failure of an earlier tier, which is not what ended the call.
C11_LastTierErrorIsRaised ==
    (Failed /\ attempts # <<>>) =>
        LET n == Len(trace) IN
        /\ n > 0
        /\ trace[n].kind = "raise"
        /\ trace[n].block = Attempting
        /\ trace[n].error = outcome.error
        /\ \A i \in 1..(n - 1) :
              trace[i].kind = "raise"
              => (trace[i].block < Attempting /\ IsSoftFailure(i, trace[i].block))

\* C12: when the reference cannot be parsed into a video id, analyze fails
\* with the ValueError of extract_video_id, whatever tier and auto_escalate
\* are, and before it no tier block was entered, no progress event was
\* emitted, no backend was invoked and no extractor was constructed.
C12_InvalidReferenceBeforeAnything ==
    (pc # "idle" /\ ~args.url_ok) =>
        /\ Failed
        /\ outcome.error = InvalidReference
        /\ trace = <<>>
        /\ attempts = <<>>
        /\ ~_caption_extractor /\ ~_audio_extractor /\ ~_visual_extractor

C12_Witness ==
    /\ Failed
    /\ ~args.url_ok
    /\ args.tier = Some(2)
    /\ args.auto_escalate = Some(TRUE)
    /\ args.progress_callback
    /\ outcome.error = InvalidReference

\* C13: every failure of the audio backend in the tier 2 block, of the
\* download as of the transcription, is an AudioExtractionError, and with
\* auto_escalate set it does not end the call: the handler catches it and
\* the call goes on to the tier 3 block.  (A failure of the progress
\* callback inside the backend is not one of the two kinds.)
C13_Tier2FailuresAreSoft ==
    \A i \in Events :
        ( /\ trace[i].kind = "raise"
          /\ trace[i].backend = "audio"
          /\ trace[i].block = 2
          /\ trace[i].error # SinkError )
        => /\ trace[i].error = AudioExtractionError
           /\ autoEscalate
                => \/ pc = "tier2_escalate"
                   \/ \E k \in 1..Len(attempts) : attempts[k] = 3
                   \/ Failed /\ outcome.error = SinkError

\* what was rendered, with which options, and what came out
Rendered(output_format) ==
    render_call # None /\ render_call[1].output_format = output_format
Segments == Result.transcript_segments
Output == output_text[1]

\* the texts of groups 1..k of a grouping, one after the other
RECURSIVE TextsUpTo(_, _)
TextsUpTo(groups, k) ==
    IF k = 0 THEN <<>> ELSE TextsUpTo(groups, k - 1) \o groups[k].texts

\* C14: the texts of the groups returned by _format_with_timestamps, taken
\* group after group, are the trimmed texts of the input segments, each one
\* once and in the order of the input.
C14_GroupsKeepEveryText ==
    Rendered("timestamps") =>
        TextsUpTo(Output, Len(Output))
            = [i \in 1..Len(Segments) |-> Strip(Segments[i].text)]

C14_Witness ==
    /\ Rendered("timestamps")
    /\ Len(Segments) = 3
    /\ Segments[1].start = 35
    /\ Segments[1].text # Segments[2].text
    /\ Len(Output) = 3

\* the start of the bucket of width interval that a segment starts in
BucketStart(seg, interval) == (seg.start \div interval) * interval

\* C15: for (0, hello), (35, world) and interval 30 the grouping is
\* (00:00 - 00:30, hello), (00:30 - end, world); for every non-empty ordered
\* input no group is without text, every group but the last is labelled
\* b - b+interval for the start b of a bucket, the last and only the last is
\* labelled b - end, and every group after the first one is labelled with
\* the bucket of its first segment, so that no bucket without segments gets
\* a group between two others.
C15_GroupLabels ==
    (Rendered("timestamps") /\ Segments # <<>>) =>
        LET interval == render_call[1].interval
            last == Len(Output)
            starts == {0} \cup { BucketStart(Segments[i], interval) :
                                    i \in 1..Len(Segments) }
        IN  /\ ( /\ Len(Segments) = 2 /\ interval = 30
                 /\ Segments[1].start = 0 /\ Segments[1].text = "hello"
                 /\ Segments[2].start = 35 /\ Strip(Segments[2].text) = "world" )
               => Output = << [label |-> [from |-> <<0, 0>>, to |-> Some(<<0, 30>>)],
                               texts |-> <<"hello">>],
                              [label |-> [from |-> <<0, 30>>, to |-> None],
                               texts |-> <<"world">>] >>
            /\ last >= 1
            /\ \A k \in 1..last : Output[k].texts # <<>>
            /\ \A k \in 1..(last - 1) :
                  \E b \in starts :
                     /\ Output[k].label.from = _format_time(b)
                     /\ Output[k].label.to = Some(_format_time(b + interval))
            /\ Output[last].label.to = None
            /\ \E b \in starts : Output[last].label.from = _format_time(b)
            /\ \A k \in 2..last :
                  Output[k].label.from =
                     _format_time(BucketStart(
                        Segments[Len(TextsUpTo(Output, k - 1)) + 1], interval))

C15_Witness ==
    /\ Rendered("timestamps")
    /\ render_call[1].interval = 30
    /\ Len(Segments) = 3
    /\ Segments[1].start = 0 /\ Segments[2].start = 70 /\ Segments[3].start = 3700
    /\ Len(Output) = 3
    /\ Output[2].label = [from |-> <<1, 0>>, to |-> Some(<<1, 30>>)]
    /\ Output[3].label = [from |-> <<1, 1, 30>>, to |-> None]

\* C16: the JSON rendering has one segment object for every element of
\* transcript_segments, in the same order, with its text and start, and
\* with end = the end of the segment when it has one and start + duration
\* when it has none.
C16_JsonSegments ==
    Rendered("json") =>
        /\ Len(Output.segments) = Len(Segments)
        /\ \A i \in 1..Len(Segments) :
              /\ Output.segments[i].text = Segments[i].text
              /\ Output.segments[i].start = Segments[i].start
              /\ Output.segments[i].end =
                    IF "end" \in DOMAIN Segments[i]
                    THEN Segments[i].end
                    ELSE Segments[i].start + Segments[i].duration

C16_Witness ==
    /\ Rendered("json")
    /\ Result.metadata.tier_used = 1
    /\ Len(Segments) = 3
    /\ Output.segments[1].end = 5
    /\ Output.segments[3] = [text |-> " world ", start |-> 3700, end |-> 3705]

\* C17: the plain rendering is transcript_text alone, without separator,
\* exactly when visual_text is empty, which is so for every result of tier 1
\* or 2, and transcript_text, the separator and visual_text exactly when
\* visual_text is not empty.
C17_PlainSeparator ==
    Rendered("plain") =>
        /\ Result.visual_text = <<>>
              <=> Output = [transcript |-> Result.transcript_text,
                            separator |-> FALSE, visual |-> <<>>]
        /\ Result.visual_text # <<>>
              <=> Output = [transcript |-> Result.transcript_text,
                            separator |-> TRUE, visual |-> Result.visual_text]
        /\ Result.metadata.tier_used \in {1, 2} => ~Output.separator

C17_Witness ==
    /\ Rendered("plain")
    /\ Result.metadata.tier_used = 3
    /\ Result.metadata.has_visual_content
    /\ Result.visual_text = <<>>
    /\ Result.transcript_text # <<>>
    /\ ~Output.separator

\* C18: the markdown rendering has the grouping of _format_with_timestamps
\* as its transcript body exactly when timestamps are asked for and
\* transcript_segments is not empty, and the flat transcript_text otherwise;
\* it has the section of the visual content, holding visual_text, exactly
\* when visual_text is not empty, whatever has_visual_content is.
C18_MarkdownBodyAndVisualSection ==
    Rendered("markdown") =>
        LET includeTimestamps == ~render_call[1].no_timestamps
            interval == render_call[1].interval
        IN  /\ Output.timestamps <=> (includeTimestamps /\ Segments # <<>>)
            /\ Output.timestamps
                  => /\ Output.groups = _format_with_timestamps(Segments, interval)
                     /\ Output.groups # <<>>
                     /\ Output.text = <<>>
            /\ ~Output.timestamps
                  => /\ Output.text = Result.transcript_text
                     /\ Output.groups = <<>>
            /\ Output.visual # None <=> Result.visual_text # <<>>
            /\ Output.visual # None => Output.visual = Some(Result.visual_text)

C18_Witness ==
    /\ Rendered("markdown")
    /\ ~render_call[1].no_timestamps
    /\ Len(Segments) = 2
    /\ Len(Output.groups) = 2
    /\ Result.metadata.has_visual_content
    /\ Result.visual_text = <<>>
    /\ Output.visual = None

\* VisualExtractor.extract was called and has returned or raised (analyze
\* ends in the same step)
VisualExited == Done /\ \E i \in Events : trace[i] = Invoke("visual")

\* an unlink of the finally clause of VisualExtractor.extract failed: the
\* video or a frame that the clause went through is still there
VisualUnlinkFailed ==
    \/ video_file
    \/ frame_paths # None /\ frame_files \cap Range(frame_paths[1]) # {}

\* C19: after VisualExtractor.extract returned or raised with keep_video and
\* keep_frames false, and no unlink having failed, the downloaded video and
\* every frame file written by extract_frames, also those that the
\* deduplication discarded, no longer exist.
C19_VisualArtifactsReleased ==
    (VisualExited /\ ~config.keep_frames /\ ~VisualUnlinkFailed) =>
        /\ ~video_file
        /\ frame_files = {}

\* the number of times extract of backend b was called
Invocations(b) ==
    Cardinality({ i \in Events : trace[i].kind = "invoke" /\ trace[i].backend = b })

\* how far the call has come: the tier block it is in (4 when it has
\* ended) and the position inside the block; Before orders the positions
PositionInBlock ==
    CASE pc = "idle" -> 0
      [] pc \in {"invalid", "tier1", "tier2", "tier3"} -> 1
      [] pc \in {"tier1_extract", "audio_enter"} -> 2
      [] pc \in {"tier1_escalate", "audio_download"} -> 3
      [] pc = "audio_transcribe_progress" -> 4
      [] pc = "audio_transcribe" -> 5
      [] pc \in {"tier2_escalate", "visual_enter"} -> 6
      [] pc = "visual_download" -> 7
      [] pc = "visual_scenes" -> 8
      [] pc = "visual_frames" -> 9
      [] pc = "visual_dedup" -> 10
      [] pc = "visual_ocr" -> 11
Position == IF Done THEN <<4, 0>> ELSE <<Attempting, PositionInBlock>>
Before(p, q) == p[1] < q[1] \/ (p[1] = q[1] /\ p[2] < q[2])

\* what C20 says of every state of a call
C20_BoundedSequentialInvocations ==
    /\ Invocations("caption") <= 1
    /\ Invocations("audio") <= 2
    /\ Invocations("visual") <= 1
    /\ \A j \in Events :
          trace[j].kind = "invoke"
          => \A i \in 1..(j - 1) :
                trace[i].kind = "invoke"
                => \E k \in (i + 1)..(j - 1) :
                      /\ trace[k].kind \in {"return", "raise"}
                      /\ trace[k].backend = trace[i].backend
    /\ Done => \/ outcome.status = "success" /\ outcome.result # None
               \/ outcome.status = "failed" /\ outcome.result = None
                    /\ outcome.error # ""
    /\ ~Done => outcome = NoOutcome

\* C20: every call ends, as a success or as a failure and not both: a call
\* that has not ended can take a step and every step takes it to a later
\* one of finitely many positions; and at no time has it invoked the caption
\* backend more than once, the audio backend more than twice or the visual
\* backend more than once, nor invoked a backend before the one invoked
\* before it returned or raised.
C20_TerminatesWithBoundedInvocations ==
    /\ []C20_BoundedSequentialInvocations
    /\ [](~Done => ENABLED Next)
    /\ [][Before(Position, Position')]_vars

C20_Witness ==
    /\ Done
    /\ Invocations("caption") = 1
    /\ Invocations("audio") = 2
    /\ Invocations("visual") = 1

(***************************************************************************)
(* C21: when AudioExtractor.extract has returned or raised, with           *)
(* keep_audio false the downloaded audio file no longer exists (unless the *)
(* unlink call itself failed), with keep_audio true the file it downloaded *)
(* is still there, and what leaves extract is never the error of the       *)
(* unlink call: it is the result or the error of the try body.             *)
(***************************************************************************)
\* extract of the audio backend has just returned or raised
AudioExited ==
    /\ trace # <<>>
    /\ trace[Len(trace)].kind \in {"return", "raise"}
    /\ trace[Len(trace)].backend = "audio"

\* the finally clause of that extract called unlink and unlink raised
AudioUnlinkFailed ==
    /\ Len(trace) > 1
    /\ trace[Len(trace) - 1] = Unlinked("audio", UnlinkError)

C21_AudioFileReleased ==
    AudioExited =>
        /\ (~config.keep_audio /\ ~AudioUnlinkFailed) => ~audio_file
        /\ (config.keep_audio /\ audio_path # None) => audio_file
        /\ trace[Len(trace)].error \in {"", AudioExtractionError, BackendError, SinkError}

\* the transcription failed after the download, the file is gone
C21_Witness ==
    /\ AudioExited
    /\ ~config.keep_audio
    /\ audio_path # None
    /\ trace[Len(trace)].error = BackendError
    /\ trace[Len(trace) - 1] = Unlinked("audio", "")
    /\ ~audio_file

(***************************************************************************)
(* C22: when download_video fails inside VisualExtractor.extract and       *)
(* keep_frames is false, the error that leaves extract and ends the call   *)
(* is the error of the download; the finally clause does not replace it.   *)
(***************************************************************************)
C22_DownloadErrorLeavesExtract ==
    [][(pc = "visual_download" /\ pc' = "done" /\ ~config.keep_frames)
          => /\ outcome'.error \in {VisualExtractionError, BackendError}
             /\ trace'[Len(trace')] = Raised("visual", outcome'.error)]_vars

(***************************************************************************)
(* C23: in the tier 3 block the audio backend is invoked and has returned  *)
(* before the visual extractor is constructed or invoked; when the audio   *)
(* backend raises, the visual backend is never reached; a missing visual   *)
(* dependency is reported only after the audio backend has returned.       *)
(***************************************************************************)
\* the events of the visual backend: its invocation, return, raise, and the
\* error of its construction
VisualEvents == { i \in Events : trace[i].backend = "visual" }

\* the audio backend returned at event a of the tier 3 block
AudioReturnedInBlock3(a) ==
    /\ trace[a].kind = "return"
    /\ trace[a].backend = "audio"
    /\ trace[a].block = 3

C23_AudioCompletesBeforeVisual ==
    /\ (_visual_extractor \/ VisualEvents # {}) =>
          \E a \in Events :
             /\ AudioReturnedInBlock3(a)
             /\ \E i \in 1..(a - 1) : trace[i] = Invoke("audio") /\ trace[i].block = 3
             /\ \A v \in VisualEvents : a < v
    /\ \A i \in Events :
          (trace[i].kind = "raise" /\ trace[i].backend = "audio" /\ trace[i].block = 3)
             => VisualEvents = {} /\ i = Len(trace)

\* the missing dependency is reported after a complete audio invocation
C23_Witness ==
    /\ Done
    /\ ~deps_available
    /\ ~_visual_extractor
    /\ trace # <<>>
    /\ trace[Len(trace)] = Raised("visual", VisualExtractionError)
    /\ VisualEvents = {Len(trace)}
    /\ \E a \in Events : AudioReturnedInBlock3(a)

(***************************************************************************)
(* C24: a call that escalated from tier 2 to tier 3 invokes the audio      *)
(* backend a second time in the tier 3 block, and its outcome is made of   *)
(* the events of the tier 3 block only: a result is built from what the    *)
(* audio and the visual backend returned in that block, a failure is the   *)
(* failure of that block's last event, never the one of the tier 2 block.  *)
(***************************************************************************)
\* the call entered the tier 3 block from the handler of the tier 2 block
EscalatedToTier3 ==
    /\ Len(attempts) > 1
    /\ attempts[Len(attempts)] = 3
    /\ attempts[Len(attempts) - 1] = 2

\* the events of the tier block b
EventsOfBlock(b) == { i \in Events : trace[i].block = b }

C24_Tier3InvokesAudioAgain ==
    (EscalatedToTier3 /\ pc \notin {"tier3", "audio_enter"}) =>
        LET last == trace[Len(trace)]
        IN  /\ \E i \in EventsOfBlock(2) :
                  trace[i].kind = "raise" /\ trace[i].backend = "audio"
            /\ Done \/ \E i \in EventsOfBlock(3) : trace[i].kind = "invoke" /\ trace[i].backend = "audio"
            /\ Succeeded =>
                  \E a \in EventsOfBlock(3) :
                     /\ trace[a].kind = "return" /\ trace[a].backend = "audio"
                     /\ \E i \in EventsOfBlock(3) :
                           i < a /\ trace[i].kind = "invoke" /\ trace[i].backend = "audio"
                     /\ last.kind = "return" /\ last.backend = "visual"
                     /\ Result = Tier3Result(trace[a].value[1], last.value[1])
            /\ Failed =>
                  /\ last.block = 3
                  /\ \/ last.kind = "raise" /\ last.error = outcome.error
                     \/ last.kind = "progress" /\ outcome.error = SinkError

\* the audio backend failed in the tier 2 block and returned in the tier 3
\* block of the same call
C24_Witness ==
    /\ EscalatedToTier3
    /\ Succeeded
    /\ \E i \in EventsOfBlock(2) :
          /\ trace[i].kind = "raise"
          /\ trace[i].backend = "audio"
          /\ trace[i].error = AudioExtractionError
    /\ Cardinality({ i \in Events : trace[i].kind = "invoke" /\ trace[i].backend = "audio" }) = 2

(***************************************************************************)
(* C25: download_audio runs the download at most twice per call; the       *)
(* second run happens only after a first run that failed with a downloader *)
(* error whose stderr contains "403", with exactly one yt-dlp update       *)
(* between the two; a downloader failure without "403" is not retried; and *)
(* every failure of a run is raised as AudioExtractionError.               *)
(***************************************************************************)
C25_DownloadRetriesOnceOn403 ==
    download.pc # "idle" =>
        LET runs == download.runs
            first403 == /\ runs # <<>>
                        /\ runs[1].kind = "CalledProcessError"
                        /\ Contains(runs[1].stderr, "403")
        IN  /\ Len(runs) <= 2
            /\ Len(runs) = 2 => (first403 /\ Len(download.updates) = 1)
            /\ Len(download.updates) <= 1
            /\ (runs # <<>> /\ ~first403) =>
                  (download.pc = "done" /\ Len(runs) = 1 /\ download.updates = <<>>)
            /\ (download.status = "raised" /\ runs # <<>>) =>
                  download.error = AudioExtractionError
            /\ download.status = "returned" =>
                  runs[Len(runs)] = [kind |-> "path", exists |-> TRUE]

(***************************************************************************)
(* C26: what CaptionExtractor.extract raises is the ValueError of a        *)
(* reference without a video id, or, once the id is parsed,                *)
(* CaptionExtractionError for every exception of its try body (disabled or *)
(* missing transcripts, unavailable video, any other exception), which is  *)
(* the error the handler of the tier 1 block catches.  An interrupt is not *)
(* an exception in this sense (it is a BaseException).                     *)
(***************************************************************************)
C26_CaptionErrorsAreSoft ==
    (caption.pc = "done" /\ caption.status = "raised" /\ caption.error # Interrupt) =>
        /\ caption.error \in {InvalidReference, CaptionExtractionError}
        /\ caption.error = InvalidReference <=> ~caption.parsed
        /\ caption.parsed => caption.error \in Caught(1)

\* a failure after the id was parsed: no transcript is found or fetched
C26_Witness ==
    /\ caption.pc = "done"
    /\ caption.status = "raised"
    /\ caption.parsed
    /\ caption.error = CaptionExtractionError

(***************************************************************************)
(* C27: over any sequence of analyze calls made one after the other on one *)
(* VideoComprehend, the caption, the audio and the visual extractor are    *)
(* each built at most once and kept, the speech model is loaded at most    *)
(* once, and an object is built only in a step of the tier block that      *)
(* needs it: the caption extractor in block 1, the audio extractor and the *)
(* model in block 2 or 3, the visual extractor in block 3, so that a call  *)
(* that succeeds at tier 1 builds neither the audio nor the visual one.    *)
(***************************************************************************)
\* the lazy property `name` built its object in this step
Builds(name) == constructions'[name] > constructions[name]

C27_BuiltOnceWhenFirstNeeded ==
    /\ [](\A name \in DOMAIN constructions : constructions[name] <= 1)
    /\ []( /\ _caption_extractor <=> constructions.caption = 1
           /\ _audio_extractor <=> constructions.audio = 1
           /\ _visual_extractor <=> constructions.visual = 1
           /\ _model <=> constructions.model = 1 )
    /\ [][ /\ Builds("caption") => (Attempting = 1 /\ pc = "tier1_extract")
           /\ Builds("audio") => (Attempting \in {2, 3} /\ pc = "audio_enter")
           /\ Builds("model") => (Attempting \in {2, 3} /\ pc = "audio_transcribe")
           /\ Builds("visual") => (Attempting = 3 /\ pc = "visual_enter")
           /\ (attempts' = <<1>> /\ pc' = "done" /\ outcome'.status = "success")
                 => (~Builds("audio") /\ ~Builds("visual") /\ ~Builds("model"))
         ]_vars

\* a later call that succeeds at tier 2 with the audio extractor and the model
\* that an earlier tier 3 call built
C27_Witness ==
    /\ Succeeded
    /\ attempts = <<2>>
    /\ constructions = [caption |-> 0, audio |-> 1, visual |-> 1, model |-> 1]
    /\ transcriptions # <<>>

(***************************************************************************)
(* C30: an initial prompt set in the configuration before the first call   *)
(* of analyze reaches the audio backend: the audio extractor that the      *)
(* orchestrator builds carries that prompt, and every transcription of the *)
(* model is given it.                                                      *)
(***************************************************************************)
C30_PromptReachesTranscription ==
    /\ _audio_extractor => initial_prompt = config.initial_prompt
    /\ \A i \in 1..Len(transcriptions) : transcriptions[i] = config.initial_prompt

(***************************************************************************)
(* C28: with two analyze calls running concurrently on one instance the    *)
(* lazily built objects stay built once: the audio extractor is            *)
(* constructed at most once and its speech model is loaded at most once.   *)
(***************************************************************************)
C28_ConcurrentCallsBuildOnce ==
    /\ constructions.audio <= 1
    /\ constructions.model <= 1

(***************************************************************************)
(* C29: two analyze calls running concurrently for the same video do not   *)
(* share the downloaded audio: while a call has downloaded its file and    *)
(* has not yet transcribed it, the file exists, whatever the other call    *)
(* does in its own cleanup.                                                *)
(***************************************************************************)
C29_DownloadedFileStaysUntilTranscribed ==
    \A c \in DOMAIN calls :
        calls[c].pc \in {"exists", "model", "load", "transcribe"} => audio_file

(***************************************************************************)
(* JSON-progress mode of main, src/src/cli.py: json_progress_event (lines  *)
(* 57-67), make_json_progress_callback (lines 70-97) and the events main   *)
(* prints itself (lines 231, 250, 316, 320, 328-340).  The events of one   *)
(* run are a function of the trace of its analyze call.                    *)
(***************************************************************************)
\* the event printed by json_progress_event, without its timestamp
json_progress_event(stage, message, progress) ==
    [stage |-> stage, message |-> message, progress |-> progress]

\* the dict stage_progress in its insertion order, which is the order in
\* which `for pattern, (s, p) in stage_progress.items()` visits it
stage_progress ==
    << [pattern |-> "Trying caption extraction", stage |-> "caption", progress |-> 10],
       [pattern |-> "Captions unavailable", stage |-> "caption", progress |-> 20],
       [pattern |-> "Escalating to Tier 2", stage |-> "escalate", progress |-> 25],
       [pattern |-> "Starting audio transcription", stage |-> "transcribe", progress |-> 30],
       [pattern |-> "Downloading audio", stage |-> "download", progress |-> 40],
       [pattern |-> "Transcribing with Whisper", stage |-> "transcribe", progress |-> 60],
       [pattern |-> "Audio transcription failed", stage |-> "transcribe", progress |-> 70],
       [pattern |-> "Escalating to Tier 3", stage |-> "escalate", progress |-> 75],
       [pattern |-> "Starting full visual analysis", stage |-> "visual", progress |-> 80] >>

\* the loop of lines 86-93 from entry i on: the first pattern found in the
\* message decides (break), "processing" and -1 when none is found
RECURSIVE StageOf(_, _)
StageOf(message, i) ==
    IF i > Len(stage_progress)
    THEN [stage |-> "processing", progress |-> -1]
    ELSE IF Contains(message, stage_progress[i].pattern)
         THEN [stage |-> stage_progress[i].stage,
               progress |-> stage_progress[i].progress]
         ELSE StageOf(message, i + 1)

\* callback(message) of make_json_progress_callback
callback(message) ==
    json_progress_event(StageOf(message, 1).stage, message,
                        StageOf(message, 1).progress)

\* the events the callback printed for the first k events of the trace
RECURSIVE CallbackEvents(_)
CallbackEvents(k) ==
    IF k = 0 THEN <<>>
    ELSE IF trace[k].kind = "progress"
         THEN Append(CallbackEvents(k - 1), callback(trace[k].msg))
         ELSE CallbackEvents(k - 1)

\* what main prints after analyze: "analyzed" and then "complete" once the
\* output is written (lines 250, 316, 320), "error" when analyze or the
\* writing of the output raised (lines 326-340)
MainEnding(saved) ==
    IF outcome.status = "success"
    THEN << json_progress_event("analyzed", <<"Analysis complete">>, 90),
            IF saved
            THEN json_progress_event("complete", <<"Saved successfully">>, 100)
            ELSE json_progress_event("error", <<"Error">>, -1) >>
    ELSE IF outcome.status = "failed"
         THEN << json_progress_event("error", <<"Error">>, -1) >>
         ELSE <<>>

\* the events of a run with --json-progress so far; saved tells whether
\* output_path.write_text worked
JsonEvents(saved) ==
    << json_progress_event("start", <<"Starting analysis">>, 0) >>
        \o CallbackEvents(Len(trace)) \o MainEnding(saved)

\* main passes the JSON callback to analyze
JsonProgressMode == pc # "idle" /\ args.progress_callback

\* C31: in JSON-progress mode, whenever analyze escalates from tier n to tier
\* n+1, an event with stage "escalate" is emitted, with progress 25 for the
\* escalation to tier 2 and 75 for the escalation to tier 3.
C31_EscalationEmitsEscalateStage ==
    JsonProgressMode =>
        \A k \in 2..Len(attempts) : \A saved \in BOOLEAN :
            \E i \in 1..Len(JsonEvents(saved)) :
                /\ JsonEvents(saved)[i].stage = "escalate"
                /\ JsonEvents(saved)[i].progress =
                       (IF attempts[k] = 2 THEN 25 ELSE 75)

\* C32: in JSON-progress mode every event of a run has its progress in
\* -1..100, and the progress values of the events with a known percentage
\* (progress >= 0) never decrease from the "start" event to the "complete"
\* event, on every escalation path, those that reach tier 3 included.
C32_ProgressNeverDecreases ==
    JsonProgressMode =>
        \A saved \in BOOLEAN :
            LET events == JsonEvents(saved)
            IN  /\ \A i \in 1..Len(events) : events[i].progress \in -1..100
                /\ \A j \in 1..Len(events) : \A i \in 1..(j - 1) :
                       events[i].progress >= 0 /\ events[j].progress >= 0
                           => events[i].progress <= events[j].progress

\* the number of seconds a label printed by _format_time stands for
LabelSeconds(t) ==
    IF Len(t) = 3 THEN t[1] * 3600 + t[2] * 60 + t[3] ELSE t[1] * 60 + t[2]

\* the group of a grouping that holds the text of the i-th segment
GroupOf(groups, i) ==
    CHOOSE k \in 1..Len(groups) :
        Len(TextsUpTo(groups, k - 1)) < i /\ i <= Len(TextsUpTo(groups, k))

\* C33: for segments ordered by start and an interval > 0, every segment
\* whose text stands in a group labelled b - b+interval starts inside
\* [b, b+interval), every segment of the last group, labelled b - end, starts
\* at b or later, and the segments that start in the same bucket stand in the
\* same group, also when the first segment does not start in bucket 0.
C33_SegmentsLieInsideTheirLabel ==
    (Rendered("timestamps") /\ Segments # <<>>) =>
        LET interval == render_call[1].interval
        IN  /\ \A i \in 1..Len(Segments) :
                  LET label == Output[GroupOf(Output, i)].label
                      b == LabelSeconds(label.from)
                  IN  /\ b <= Segments[i].start
                      /\ label.to # None => Segments[i].start < b + interval
            /\ \A i, j \in 1..Len(Segments) :
                  BucketStart(Segments[i], interval) = BucketStart(Segments[j], interval)
                      => GroupOf(Output, i) = GroupOf(Output, j)

(***************************************************************************)
(* Two functions on frames, each applied on its own to inputs drawn by     *)
(* FramesInit: VisualExtractor.deduplicate_frames (lines 278-309) and      *)
(* VisualResult.text_with_context (lines 65-97) of                         *)
(* src/src/extractors/visual.py.                                           *)
(***************************************************************************)
\* what find_duplicates of the hasher can return for the frames in S: a
\* dict that gives every frame the frames found near to it, never the frame
\* itself, and that lists each frame of a pair under the other
DuplicateMaps(S) ==
    { d \in [S -> SUBSET S] :
        \A a \in S : a \notin d[a] /\ \A b \in S : b \in d[a] <=> a \in d[b] }

\* deduplicate_frames: lines 288-289 return the list as it is, lines 304-306
\* collect every value of the dict, line 309 filters the list
deduplicate_frames(paths, duplicates, imagededup_available) ==
    IF paths = <<>> \/ ~imagededup_available
    THEN paths
    ELSE LET to_remove == UNION { duplicates[original] : original \in DOMAIN duplicates }
         IN  SelectSeq(paths, LAMBDA p : p \notin to_remove)

\* FrameContent(timestamp, ocr_text) lists in the order of their timestamps
FrameTimes == {2, 14, 20, 50}
FrameContents == [timestamp : FrameTimes, ocr_text : OcrTexts]
OrderedFrames ==
    { q \in SeqsUpTo(FrameContents, MaxFrames) :
        \A i \in 1..(Len(q) - 1) : q[i].timestamp <= q[i + 1].timestamp }

\* audio segments in the order of their start times; the long one ends
\* after the segments that start later
AudioSegments ==
    { [text |-> "hello", start |-> 0, end |-> 4],
      [text |-> "hello", start |-> 0, end |-> 40],
      [text |-> " world ", start |-> 10, end |-> 14],
      [text |-> "hello", start |-> 35, end |-> 39] }
OrderedAudio == OrderedSegments(AudioSegments)

\* an entry of the joined text: its tag, its formatted time and its text
Entry(tag, seconds, text) ==
    [tag |-> tag, time |-> _format_time(seconds), text |-> text]

\* VisualResult.text, lines 57-63, entry by entry
RECURSIVE TextEntries(_)
TextEntries(frames) ==
    IF frames = <<>> THEN <<>>
    ELSE (IF IsBlank(Head(frames).ocr_text) THEN <<>>
          ELSE << Entry("", Head(frames).timestamp, Head(frames).ocr_text) >>)
         \o TextEntries(Tail(frames))

\* lines 84-85 and 94-95: what a frame adds to combined
VisualEntry(frame) ==
    IF IsBlank(frame.ocr_text) THEN <<>>
    ELSE << Entry("VISUAL", frame.timestamp, frame.ocr_text) >>

\* Due that compares with the start of the segment
DueByStart(frame, seg) == frame.timestamp <= seg.start

\* line 83
Due(frame, seg) == frame.timestamp <= seg.end

\* the while loop of lines 81-88 on the locals st, for the segment seg
RECURSIVE ContextWhile(_, _, _)
ContextWhile(st, frames, seg) ==
    IF st.frame_idx < Len(frames) /\ Due(frames[st.frame_idx + 1], seg)
    THEN ContextWhile([frame_idx |-> st.frame_idx + 1,
                       combined |-> st.combined
                                      \o VisualEntry(frames[st.frame_idx + 1])],
                      frames, seg)
    ELSE st

\* the locals of text_with_context after the first i audio segments
RECURSIVE ContextLoop(_, _, _)
ContextLoop(frames, audio_segments, i) ==
    IF i = 0
    THEN [frame_idx |-> 0, combined |-> <<>>]
    ELSE LET st == ContextWhile(ContextLoop(frames, audio_segments, i - 1),
                                frames, audio_segments[i])
         IN  [frame_idx |-> st.frame_idx,
              combined |-> Append(st.combined,
                                  Entry("AUDIO", audio_segments[i].start,
                                        audio_segments[i].text))]

\* lines 93-95: the frames from index k + 1 on
RECURSIVE RemainingFrames(_, _)
RemainingFrames(frames, k) ==
    IF k >= Len(frames) THEN <<>>
    ELSE VisualEntry(frames[k + 1]) \o RemainingFrames(frames, k + 1)

\* text_with_context: the entries it joins, in order
text_with_context(frames, audio_segments) ==
    IF audio_segments = <<>>
    THEN TextEntries(frames)
    ELSE LET st == ContextLoop(frames, audio_segments, Len(audio_segments))
         IN  st.combined \o RemainingFrames(frames, st.frame_idx)

\* a fresh instance; the functions read nothing of it
FramesInit ==
    /\ Init
    /\ config = [default_tier |-> 1, auto_escalate |-> TRUE, keep_audio |-> FALSE,
                 keep_frames |-> FALSE, deduplicate |-> TRUE]
    /\ deps_available

\* deduplicate_frames is applied to a list of frame files and to what the
\* hasher reports on the files of the frame directory, which are those files
deduplicate_frames_call ==
    /\ frames_call = NoFramesCall
    /\ \E k \in 0..(MaxFrames + 1), a \in BOOLEAN :
          \E d \in DuplicateMaps(Range(FramePaths(k))) :
             frames_call' =
                [op |-> "deduplicate_frames", frame_paths |-> FramePaths(k),
                 duplicates |-> d, imagededup_available |-> a,
                 result |-> deduplicate_frames(FramePaths(k), d, a)]
    /\ UNCHANGED << analyze_state, render_state, download, caption, calls >>

\* text_with_context is applied to the frames of a VisualResult and to
\* audio segments
text_with_context_call ==
    /\ frames_call = NoFramesCall
    /\ \E f \in OrderedFrames, s \in OrderedAudio :
          frames_call' =
             [op |-> "text_with_context", frames |-> f, audio_segments |-> s,
              result |-> text_with_context(f, s)]
    /\ UNCHANGED << analyze_state, render_state, download, caption, calls >>

FramesNext ==
    \/ deduplicate_frames_call
    \/ text_with_context_call

FramesSpec == FramesInit /\ [][FramesNext]_vars

\* the frames that a chain of at most n duplicate pairs connects with f
RECURSIVE Chained(_, _, _)
Chained(duplicates, f, n) ==
    IF n = 0 THEN {f}
    ELSE LET near == Chained(duplicates, f, n - 1)
         IN  near \cup UNION { duplicates[g] : g \in near }

\* the group of mutual duplicates of f
DuplicateGroup(duplicates, f) ==
    Chained(duplicates, f, Cardinality(DOMAIN duplicates))

\* the frame of a group that comes first in the list
Earliest(group) == CHOOSE f \in group : \A g \in group : f <= g

\* C34: for every duplicate relation the hasher reports, the list returned by
\* deduplicate_frames keeps the order of the input, contains every frame
\* that has no duplicate, and contains of every group of mutual duplicates
\* exactly one frame, the earliest.
C34_KeepsFirstOfEachGroup ==
    (frames_call.op = "deduplicate_frames" /\ frames_call.imagededup_available) =>
        LET paths == frames_call.frame_paths
            result == frames_call.result
            duplicates == frames_call.duplicates
        IN  /\ Range(result) \subseteq Range(paths)
            /\ \A i \in 1..(Len(result) - 1) : result[i] < result[i + 1]
            /\ \A f \in Range(paths) :
                  duplicates[f] = {} => f \in Range(result)
            /\ \A f \in Range(paths) :
                  Range(result) \cap DuplicateGroup(duplicates, f)
                     = { Earliest(DuplicateGroup(duplicates, f)) }

\* the call of text_with_context that was made, and what it returned
Interleaved == frames_call.op = "text_with_context"
Combined == frames_call.result

\* the position in the entries of the j-th entry that is not an audio segment
FramePosition(entries, j) ==
    CHOOSE p \in 1..Len(entries) :
        /\ entries[p].tag # "AUDIO"
        /\ Cardinality({ q \in 1..p : entries[q].tag # "AUDIO" }) = j

\* the number of audio segments that precede the first one whose end is at
\* or after the timestamp of the frame: all of them when there is none
SegmentsBefore(frame, audio_segments) ==
    Cardinality({ i \in 1..Len(audio_segments) :
                    \A k \in 1..i : audio_segments[k].end < frame.timestamp })

\* C35: given audio segments and frames in the order of their times,
\* text_with_context emits every audio segment once and in order, every frame
\* with a non-blank OCR text once and in order and no frame with a blank one,
\* each frame directly before the first audio segment whose end is at or
\* after the timestamp of the frame, and after all audio segments the frames
\* that are later than the end of every segment.
C35_FramesInterleavedBySegmentEnd ==
    Interleaved =>
        LET frames == frames_call.frames
            audio_segments == frames_call.audio_segments
            shown == SelectSeq(frames, LAMBDA f : ~IsBlank(f.ocr_text))
            audio == SelectSeq(Combined, LAMBDA e : e.tag = "AUDIO")
            visual == SelectSeq(Combined, LAMBDA e : e.tag # "AUDIO")
        IN  /\ audio = [i \in 1..Len(audio_segments) |->
                           Entry("AUDIO", audio_segments[i].start,
                                 audio_segments[i].text)]
            /\ Len(visual) = Len(shown)
            /\ \A j \in 1..Len(shown) :
                  /\ visual[j].time = _format_time(shown[j].timestamp)
                  /\ visual[j].text = shown[j].ocr_text
                  /\ Cardinality({ q \in 1..FramePosition(Combined, j) :
                                     Combined[q].tag = "AUDIO" })
                        = SegmentsBefore(shown[j], audio_segments)

\* a frame at the very end of the second segment and a frame after the end
\* of every segment
C35_Witness ==
    /\ Interleaved
    /\ Len(frames_call.audio_segments) = 3
    /\ Len(frames_call.frames) = 2
    /\ frames_call.frames[1].timestamp = 14
    /\ frames_call.frames[2].timestamp = 50
    /\ ~IsBlank(frames_call.frames[1].ocr_text)
    /\ ~IsBlank(frames_call.frames[2].ocr_text)
    /\ frames_call.audio_segments[2].end = 14
    /\ Len(Combined) = 5
    /\ Combined[2].tag = "VISUAL" /\ Combined[5].tag = "VISUAL"

=============================================================================
